---------------------------- MODULE Spec2Model ----------------------------
(***************************************************************************)
(* A model of the WhatsApp chat parser (src/parser.js, WhatsAppParser).    *)
(*                                                                         *)
(* Strings are sequences of code points; a code point is a one-character   *)
(* TLA+ string, or a name in angle brackets for a code point that has no   *)
(* printable form ("<LRM>" is U+200E).  The regular expressions of the     *)
(* source are translated into operators over such sequences.  The chat     *)
(* text is held as the sequence of its lines (the result of the split on   *)
(* line breaks at parser.js:54 and parser.js:90).                          *)
(***************************************************************************)
EXTENDS Integers, Sequences, FiniteSets, TLC

VARIABLES
    content,        \* the raw lines of the chat text handed to parse
    mediaFiles,     \* the caller's lookup table: a sequence of [key, value]
    clock,          \* the wall clock ("now") during the call
    pc,             \* position of the call: "start", "scan", "done"
    rawLines,       \* the lines parse splits the text into
    i,              \* index of the line the scanner is at (1-based)
    exportFormat,   \* the detected dialect
    messages,       \* the pushed (closed) messages
    participants,   \* sender -> count, as a sequence of [name, count]
    currentMessage, \* the open message, or Null
    lastTimestamp,  \* timestamp of the last opening header, or Null
    result,         \* the returned ChatData, or Null
    opened,         \* history: one entry per message the scanner opened
    finalized,      \* history: ids in the order finalizeMessage ran
    fname,          \* findMediaFile call: the filename argument
    found,          \* findMediaFile call: the value returned
    dateStr,        \* parseDateTime call: the date token
    timeStr,        \* parseDateTime call: the time token
    resolved,       \* parseDateTime call: the Date returned, or Null
    rawLine,        \* cleanText call: the text argument
    cleaned,        \* cleanText call: the text returned, or Null
    zip,            \* processZipFile call: the entries of the archive
    pending,        \* processZipFile call: the entry reads not yet settled
    chatContent     \* processZipFile call: the chat text found so far, or Null

vars == <<content, mediaFiles, clock, pc, rawLines, i, exportFormat, messages,
          participants, currentMessage, lastTimestamp, result, opened, finalized,
          fname, found, dateStr, timeStr, resolved, rawLine, cleaned,
                   zip, pending, chatContent>>

---------------------------------------------------------------------------
(* Code points *)

Null == [null |-> TRUE]

Digits == {"0", "1", "2", "3", "4", "5", "6", "7", "8", "9"}

UpperLetters ==
    <<"A", "B", "C", "D", "E", "F", "G", "H", "I", "J", "K", "L", "M",
      "N", "O", "P", "Q", "R", "S", "T", "U", "V", "W", "X", "Y", "Z">>

LowerLetters ==
    <<"a", "b", "c", "d", "e", "f", "g", "h", "i", "j", "k", "l", "m",
      "n", "o", "p", "q", "r", "s", "t", "u", "v", "w", "x", "y", "z">>

UpperSet == {UpperLetters[k] : k \in 1..26}

LowerSet == {LowerLetters[k] : k \in 1..26}

LowerOf == [c \in UpperSet |-> LowerLetters[CHOOSE k \in 1..26 : UpperLetters[k] = c]]

\* String.prototype.toLowerCase on one code point
LowerChar(c) == IF c \in UpperSet THEN LowerOf[c] ELSE c

toLowerCase(s) == [k \in 1..Len(s) |-> LowerChar(s[k])]

IsDigit(c) == c \in Digits

\* \w of a JavaScript regular expression: [A-Za-z0-9_]
IsWord(c) == c \in Digits \/ c \in UpperSet \/ c \in LowerSet \/ c = "_"

\* first character class of cleanText (parser.js:35): U+200E, U+200F, U+200B-200D, U+2060-206F, U+2028, U+2029, U+FEFF
InvisibleMarks == {"<LRM>", "<RLM>", "<ZWSP>", "<ZWNJ>", "<ZWJ>", "<WJ>",
                   "<LRI>", "<PDI>", "<LS>", "<PS>", "<BOM>"}

\* second character class of cleanText (parser.js:37): U+00A0, U+202F, U+2007, U+2008, U+2009, U+200A
SpecialSpaces == {"<NBSP>", "<NNBSP>", "<FIGSP>", "<PUNCSP>", "<THINSP>", "<HAIRSP>"}

\* third character class of cleanText (parser.js:39): U+202A-202E, U+2066-2069
BidiControls == {"<LRE>", "<RLE>", "<PDF>", "<LRO>", "<RLO>", "<LRI>", "<PDI>"}

\* \s of a JavaScript regular expression, which is also what trim() strips;
\* "<EMSP>" (U+2003) stands for the space separators cleanText does not replace
WhiteSpace == {" ", "\t", "\n", "<CR>", "<EMSP>", "<LS>", "<PS>", "<BOM>"} \cup SpecialSpaces

\* the code points "." of a regular expression does not match
LineTerminators == {"\n", "<CR>", "<LS>", "<PS>"}

---------------------------------------------------------------------------
(* String helpers *)

\* s.replace(/[set]/g, '')
RemoveAll(s, set) == SelectSeq(s, LAMBDA c : c \notin set)

\* s.replace(/[set]/g, c)
ReplaceAll(s, set, c) == [k \in 1..Len(s) |-> IF s[k] \in set THEN c ELSE s[k]]

\* each code point of s with the one before it ("" before the first)
withPrevious(s) == [k \in 1..Len(s) |-> <<s[k], IF k > 1 THEN s[k - 1] ELSE "">>]

firsts(pairs) == [k \in 1..Len(pairs) |-> pairs[k][1]]

\* s.replace(/  +/g, ' '): a plain space that follows a plain space is dropped
Collapse(s) ==
    firsts(SelectSeq(withPrevious(s), LAMBDA pr : ~(pr[1] = " " /\ pr[2] = " ")))

RECURSIVE Run(_, _, _)
\* number of consecutive code points of `set` in s from position p on
Run(s, p, set) ==
    IF p < 1 \/ p > Len(s) THEN 0
    ELSE IF s[p] \in set THEN 1 + Run(s, p + 1, set)
    ELSE 0

RECURSIVE RunBack(_, _, _)
\* number of consecutive code points of `set` in s that end at position p
RunBack(s, p, set) ==
    IF p < 1 \/ p > Len(s) THEN 0
    ELSE IF s[p] \in set THEN 1 + RunBack(s, p - 1, set)
    ELSE 0

\* String.prototype.trim
trim(s) == SubSeq(s, 1 + Run(s, 1, WhiteSpace), Len(s) - RunBack(s, Len(s), WhiteSpace))

\* t ends the string s
endsWith(s, t) == Len(t) <= Len(s) /\ SubSeq(s, Len(s) - Len(t) + 1, Len(s)) = t

\* whether `word` stands in s at position p, letter case ignored
AtCI(s, p, word) ==
    /\ p >= 1
    /\ p + Len(word) - 1 <= Len(s)
    /\ \A k \in 1..Len(word) : LowerChar(s[p + k - 1]) = LowerChar(word[k])

\* whether `word` stands in s at position p
At(s, p, word) ==
    /\ p >= 1
    /\ p + Len(word) - 1 <= Len(s)
    /\ \A k \in 1..Len(word) : s[p + k - 1] = word[k]

\* String.prototype.includes
includes(s, word) == \E p \in 1..(Len(s) + 1) : At(s, p, word)

\* the least element of a non-empty set of positions
Least(ps) == CHOOSE p \in ps : \A q \in ps : p <= q

\* parseInt(s, 10) of a string of decimal digits
DigitVal(c) == CHOOSE v \in 0..9 : <<"0", "1", "2", "3", "4", "5", "6", "7", "8", "9">>[v + 1] = c

RECURSIVE parseInt(_)
parseInt(s) ==
    IF Len(s) = 0 THEN 0
    ELSE 10 * parseInt(SubSeq(s, 1, Len(s) - 1)) + DigitVal(s[Len(s)])

---------------------------------------------------------------------------
(* Text Normalizer: parser.js:31-45 *)

\* a faulty normaliser: the text is trimmed before the replacements
cleanTextTrimmedFirst(text) ==
    Collapse(RemoveAll(RemoveAll(ReplaceAll(RemoveAll(trim(text), InvisibleMarks),
                                            SpecialSpaces, " "),
                                 BidiControls),
                       {"<CR>"}))

\* parser.js:31-45
cleanText(text) ==
    LET a == RemoveAll(text, InvisibleMarks)
        b == ReplaceAll(a, SpecialSpaces, " ")
        c == RemoveAll(b, BidiControls)
        d == RemoveAll(c, {"<CR>"})
        e == Collapse(d)
    IN  trim(e)

---------------------------------------------------------------------------
(* Header grammars: parser.js:99, 102, 213, 214 *)

\* the code point of s at position k, "<EOF>" beyond its ends
Ch(s, k) == IF k >= 1 /\ k <= Len(s) THEN s[k] ELSE "<EOF>"

NoMatch == [ok |-> FALSE]

\* p advanced over the white space that stands there
SkipSpace(s, p) == p + Run(s, p, WhiteSpace)

\* \d{1,2}[\/.] at position p, r the run of digits there: the position after
\* the separator, 0 when it does not match
FieldEndOf(s, p, r) ==
    IF p /= 0 /\ r \in 1..2 /\ Ch(s, p + r) \in {"/", "."} THEN p + r + 1 ELSE 0

FieldEnd(s, p) == FieldEndOf(s, p, Run(s, p, Digits))

\* \d{2,4} at position p, r the run of digits there
YearEndOf(p, r) == IF p /= 0 /\ r \in 2..4 THEN p + r ELSE 0

\* (\d{1,2}[\/.]\d{1,2}[\/.]\d{2,4}) at position p: the position after it, 0 when
\* it does not match.  Each digit group is followed by a code point that is no
\* digit, so the group is the whole run of digits.
DateEnd(s, p) == YearEndOf(FieldEnd(s, FieldEnd(s, p)), Run(s, FieldEnd(s, FieldEnd(s, p)), Digits))

Meridiems == {<<"A", "M">>, <<"P", "M">>, <<"a", "m">>, <<"p", "m">>}

\* (?::\d{2})? at position q: the position after it
SecondsEnd(s, q) ==
    IF Ch(s, q) = ":" /\ IsDigit(Ch(s, q + 1)) /\ IsDigit(Ch(s, q + 2)) THEN q + 3 ELSE q

\* (?:AM|PM|am|pm)? at position e: the position after it
PeriodEnd(s, e) == IF \E m \in Meridiems : At(s, e, m) THEN e + 2 ELSE e

\* \d{1,2}:\d{2}(?::\d{2})?\s*(?:AM|PM|am|pm)? at position p, h the run of
\* digits there
TimeEndOf(s, p, h) ==
    IF /\ h \in 1..2
       /\ Ch(s, p + h) = ":"
       /\ IsDigit(Ch(s, p + h + 1))
       /\ IsDigit(Ch(s, p + h + 2))
    THEN PeriodEnd(s, SkipSpace(s, SecondsEnd(s, p + h + 3)))
    ELSE 0

\* (\d{1,2}:\d{2}(?::\d{2})?\s*(?:AM|PM|am|pm)?) at position p: the position
\* after it, 0 when it does not match
TimeEnd(s, p) == TimeEndOf(s, p, Run(s, p, Digits))

\* the groups of \s*([^:]+):\s*(.*) at position r, c0 the first colon from r
\* on: when only white space stands before the colon, \s* gives one code
\* point back to the sender group
SenderTextOf(s, r, c0) ==
    IF c0 = r THEN NoMatch
    ELSE [ok |-> TRUE,
          sender |-> SubSeq(s, IF SkipSpace(s, r) < c0 THEN SkipSpace(s, r) ELSE c0 - 1, c0 - 1),
          text |-> SubSeq(s, SkipSpace(s, c0 + 1), Len(s))]

\* \s*([^:]+):\s*(.*) at position r: [ok, sender, text]
SenderText(s, r) ==
    IF \A c \in r..Len(s) : s[c] /= ":" THEN NoMatch
    ELSE SenderTextOf(s, r, Least({c \in r..Len(s) : s[c] = ":"}))

\* the groups of \s*(.+) at position r, p the position after the white space
RestTextOf(s, r, p) ==
    IF p <= Len(s) THEN [ok |-> TRUE, text |-> SubSeq(s, p, Len(s))]
    ELSE IF p > r THEN [ok |-> TRUE, text |-> SubSeq(s, Len(s), Len(s))]
    ELSE NoMatch

\* \s*(.+) at position r: [ok, text]
RestText(s, r) == RestTextOf(s, r, SkipSpace(s, r))

\* the date and time groups of a header: the date stands in from..dEnd - 1,
\* the time in tStart..tEnd - 1
PrefixGroups(s, from, dEnd, tStart, tEnd) ==
    IF dEnd /= 0 /\ Ch(s, dEnd) = "," /\ tEnd /= 0
    THEN [ok |-> TRUE,
          dateStr |-> SubSeq(s, from, dEnd - 1),
          timeStr |-> SubSeq(s, tStart, tEnd - 1),
          rest |-> tEnd]
    ELSE NoMatch

PrefixFrom(s, from, dEnd) ==
    PrefixGroups(s, from, dEnd, SkipSpace(s, dEnd + 1), TimeEnd(s, SkipSpace(s, dEnd + 1)))

\* the part of a header up to the time: [ok, dateStr, timeStr, rest], rest the
\* position after the time group.  `from` is where the date starts.
DateTimePrefix(s, from) == PrefixFrom(s, from, DateEnd(s, from))

\* a header from its prefix h and the groups st that follow the delimiter
HeaderGroups(h, st) ==
    IF st.ok
    THEN [ok |-> TRUE, dateStr |-> h.dateStr, timeStr |-> h.timeStr,
          sender |-> st.sender, text |-> st.text]
    ELSE NoMatch

SysHeaderGroups(h, rt) ==
    IF rt.ok
    THEN [ok |-> TRUE, dateStr |-> h.dateStr, timeStr |-> h.timeStr, text |-> rt.text]
    ELSE NoMatch

\* the position of the closing bracket of a bracketed prefix h, 0 when the
\* prefix or the brackets do not match
BracketClose(s, h) == IF Ch(s, 1) = "[" /\ h.ok /\ Ch(s, h.rest) = "]" THEN h.rest ELSE 0

\* the position of the dash after a prefix h, 0 when there is none
DashAt(s, h) == IF h.ok /\ Ch(s, SkipSpace(s, h.rest)) = "-" THEN SkipSpace(s, h.rest) ELSE 0

BracketHeader(s, h, close) == IF close = 0 THEN NoMatch ELSE HeaderGroups(h, SenderText(s, close + 1))

DashHeader(s, h, dash) == IF dash = 0 THEN NoMatch ELSE HeaderGroups(h, SenderText(s, dash + 1))

SysBracketHeader(s, h, close) == IF close = 0 THEN NoMatch ELSE SysHeaderGroups(h, RestText(s, close + 1))

SysDashHeader(s, h, dash) == IF dash = 0 THEN NoMatch ELSE SysHeaderGroups(h, RestText(s, dash + 1))

BracketPatternOf(s, h) == BracketHeader(s, h, BracketClose(s, h))

DashPatternOf(s, h) == DashHeader(s, h, DashAt(s, h))

SysBracketPatternOf(s, h) == SysBracketHeader(s, h, BracketClose(s, h))

SysDashPatternOf(s, h) == SysDashHeader(s, h, DashAt(s, h))

\* parser.js:99
bracketPattern(s) == BracketPatternOf(s, DateTimePrefix(s, 2))

\* parser.js:102
dashPattern(s) == DashPatternOf(s, DateTimePrefix(s, 1))

\* parser.js:213
sysBracketPattern(s) == SysBracketPatternOf(s, DateTimePrefix(s, 2))

\* parser.js:214
sysDashPattern(s) == SysDashPatternOf(s, DateTimePrefix(s, 1))

\* a faulty choice of the header grammar: both grammars, whatever the format
eitherPattern(fmt, s) ==
    IF bracketPattern(s).ok THEN bracketPattern(s) ELSE dashPattern(s)

\* parser.js:105
messagePattern(fmt, s) == IF fmt = "android-dash" THEN dashPattern(s) ELSE bracketPattern(s)

\* parser.js:216
sysPattern(fmt, s) == IF fmt = "android-dash" THEN sysDashPattern(s) ELSE sysBracketPattern(s)

---------------------------------------------------------------------------
(* DateTime Resolver: parser.js:556-614 *)

RECURSIVE split(_, _)
\* s split at its first separator, which follows n code points
splitAt(s, seps, n) ==
    IF n = Len(s) THEN <<s>>
    ELSE <<SubSeq(s, 1, n)>> \o split(SubSeq(s, n + 2, Len(s)), seps)

\* String.prototype.split on a character class
split(s, seps) == splitAt(s, seps, Run(s, 1, {s[k] : k \in 1..Len(s)} \ seps))

\* a faulty expansion: every 2-digit year is taken into the 1900s
ExpandYearTo1900(year) == IF year < 100 THEN year + 1900 ELSE year

\* parser.js:570-572: a 2-digit year is expanded
ExpandYear(year) == IF year < 100 THEN (IF year < 50 THEN year + 2000 ELSE year + 1900) ELSE year

\* parser.js:576-591: [month, day] from the first two fields of the date
MonthDay(first, second) ==
    IF first > 12 THEN [month |-> second, day |-> first]
    ELSE IF second > 12 THEN [month |-> first, day |-> second]
    ELSE [month |-> first, day |-> second]

\* a faulty conversion: PM adds 12 to every hour, AM leaves every hour
Hours24Plain(hours, period) == IF period = "PM" THEN hours + 12 ELSE hours

\* parser.js:602-606: the hour of a 12-hour clock; period is "" when absent
Hours24(hours, period) ==
    IF period = "" THEN hours
    ELSE IF period = "PM" /\ hours /= 12 THEN hours + 12
    ELSE IF period = "AM" /\ hours = 12 THEN 0
    ELSE hours

\* the days from 1970-01-01 to the given day of the proleptic Gregorian
\* calendar, month in 1..12, any day number
DaysFromCivil(y, m, d) ==
    LET y2  == IF m <= 2 THEN y - 1 ELSE y
        era == y2 \div 400
        yoe == y2 - era * 400
        mp  == IF m > 2 THEN m - 3 ELSE m + 9
        doy == ((153 * mp + 2) \div 5) + d - 1
        doe == yoe * 365 + (yoe \div 4) - (yoe \div 100) + doy
    IN  era * 146097 + doe - 719468

\* new Date(year, monthIndex, day, hours, minutes, seconds): an instant as
\* [day, sec], day counted from 1970-01-01 and sec the second of that day.
\* Fields out of range carry over, as in the Date constructor.
NewDate(year, monthIndex, day, hours, minutes, seconds) ==
    LET y   == year + (monthIndex \div 12)
        m   == (monthIndex % 12) + 1
        tot == hours * 3600 + minutes * 60 + seconds
    IN  [day |-> DaysFromCivil(y, m, day) + (tot \div 86400), sec |-> tot % 86400]

\* a < b on two Date values
DateLess(a, b) == a.day < b.day \/ (a.day = b.day /\ a.sec < b.sec)

\* the hour group \d{1,2} at the start of a time string: its length
HourLen(t) == IF Run(t, 1, Digits) >= 2 THEN 2 ELSE Run(t, 1, Digits)

\* the groups of a time string whose hour has h digits and whose seconds, if
\* any, are followed by white space up to position e
timeGroups(t, h, e) ==
    IF h >= 1 /\ Ch(t, h + 1) = ":" /\ IsDigit(Ch(t, h + 2)) /\ IsDigit(Ch(t, h + 3))
    THEN [ok |-> TRUE,
          hours |-> parseInt(SubSeq(t, 1, h)),
          minutes |-> parseInt(SubSeq(t, h + 2, h + 3)),
          seconds |-> IF SecondsEnd(t, h + 4) /= h + 4
                      THEN parseInt(SubSeq(t, h + 5, h + 6)) ELSE 0,
          period |-> IF PeriodEnd(t, e) /= e
                     THEN (IF LowerChar(Ch(t, e)) = "a" THEN "AM" ELSE "PM")
                     ELSE ""]
    ELSE NoMatch

timeMatchOf(t, h) == timeGroups(t, h, SkipSpace(t, SecondsEnd(t, h + 4)))

\* the groups of /(\d{1,2}):(\d{2})(?::(\d{2}))?\s*(AM|PM|am|pm)?/ in a time
\* string that starts with a time (parser.js:594): [ok, hours, minutes, seconds, period]
timeMatch(t) == timeMatchOf(t, HourLen(t))

\* parser.js:597-613: the Date of a year, a [month, day] and the time groups
resolveDate(year, md, tm) ==
    IF ~tm.ok THEN NewDate(year, md.month - 1, md.day, 0, 0, 0)
    ELSE NewDate(year, md.month - 1, md.day,
                 Hours24(tm.hours, tm.period), tm.minutes, tm.seconds)

\* parser.js:562-613 on the fields of the date and the time groups
parseDateTimeOf(dateParts, tm, now) ==
    IF Len(dateParts) /= 3 THEN now
    ELSE resolveDate(ExpandYear(parseInt(dateParts[3])),
                     MonthDay(parseInt(dateParts[1]), parseInt(dateParts[2])),
                     tm)

\* parser.js:556-614; `now` is the wall clock, returned for a date that does
\* not split into three fields
parseDateTime(dateStr0, timeStr0, now) ==
    parseDateTimeOf(split(cleanText(dateStr0), {"/", "."}), timeMatch(cleanText(timeStr0)), now)

---------------------------------------------------------------------------
(* The literal words of the regular expressions and texts of parser.js *)

W_attached == <<"a", "t", "t", "a", "c", "h", "e", "d">>

W_omitted == <<"o", "m", "i", "t", "t", "e", "d">>

W_image == <<"i", "m", "a", "g", "e">>

W_video == <<"v", "i", "d", "e", "o">>

W_audio == <<"a", "u", "d", "i", "o">>

W_sticker == <<"s", "t", "i", "c", "k", "e", "r">>

W_document == <<"d", "o", "c", "u", "m", "e", "n", "t">>

W_GIF == <<"G", "I", "F">>

W_pdf == <<"p", "d", "f">>

W_xls == <<"x", "l", "s">>

W_xlsx == <<"x", "l", "s", "x">>

W_doc == <<"d", "o", "c">>

W_docx == <<"d", "o", "c", "x">>

W_ppt == <<"p", "p", "t">>

W_pptx == <<"p", "p", "t", "x">>

W_page == <<"p", "a", "g", "e">>

W_sheet == <<"s", "h", "e", "e", "t">>

W_Voice == <<"V", "o", "i", "c", "e">>

W_Video == <<"V", "i", "d", "e", "o">>

W_Group == <<"G", "r", "o", "u", "p">>

W_call == <<"c", "a", "l", "l">>

W_Missed == <<"M", "i", "s", "s", "e", "d">>

W_No == <<"N", "o">>

W_answer == <<"a", "n", "s", "w", "e", "r">>

W_Tap == <<"T", "a", "p">>

W_to == <<"t", "o">>

W_back == <<"b", "a", "c", "k">>

W_system == <<"s", "y", "s", "t", "e", "m">>

W_whatsapp == <<"w", "h", "a", "t", "s", "a", "p", "p">>

W_Unknown == <<"U", "n", "k", "n", "o", "w", "n">>

W_System == <<"S", "y", "s", "t", "e", "m">>

W_deleted1 == <<"T", "h", "i", "s", " ", "m", "e", "s", "s", "a", "g", "e", " ", "w", "a", "s", " ", "d", "e", "l", "e", "t", "e", "d">>

W_deleted2 == <<"Y", "o", "u", " ", "d", "e", "l", "e", "t", "e", "d", " ", "t", "h", "i", "s", " ", "m", "e", "s", "s", "a", "g", "e">>

W_encrypted == <<"M", "e", "s", "s", "a", "g", "e", "s", " ", "a", "n", "d", " ", "c", "a", "l", "l", "s", " ", "a", "r", "e", " ", "e", "n", "d", "-", "t", "o", "-", "e", "n", "d", " ", "e", "n", "c", "r", "y", "p", "t", "e", "d">>

W_createdGroup == <<"c", "r", "e", "a", "t", "e", "d", " ", "g", "r", "o", "u", "p">>

W_added == <<"a", "d", "d", "e", "d">>

W_left == <<"l", "e", "f", "t">>

W_removed == <<"r", "e", "m", "o", "v", "e", "d">>

W_changedSubject == <<"c", "h", "a", "n", "g", "e", "d", " ", "t", "h", "e", " ", "s", "u", "b", "j", "e", "c", "t">>

W_changedGroup == <<"c", "h", "a", "n", "g", "e", "d", " ", "t", "h", "i", "s", " ", "g", "r", "o", "u", "p">>

W_edited == <<"<", "T", "h", "i", "s", " ", "m", "e", "s", "s", "a", "g", "e", " ", "w", "a", "s", " ", "e", "d", "i", "t", "e", "d", ">">>

W_NoAnswerText == <<" ", "-", " ", "N", "o", " ", "a", "n", "s", "w", "e", "r">>

W_CallNoAnswer == <<"C", "a", "l", "l", " ", "-", " ", "N", "o", " ", "a", "n", "s", "w", "e", "r">>

W_MissedCall == <<"M", "i", "s", "s", "e", "d", " ", "c", "a", "l", "l">>

W_PHOTO == <<"P", "H", "O", "T", "O">>

W_VIDEO == <<"V", "I", "D", "E", "O">>

W_AUDIO == <<"A", "U", "D", "I", "O">>

W_DOCUMENT == <<"D", "O", "C", "U", "M", "E", "N", "T">>

W_FILE == <<"F", "I", "L", "E">>

---------------------------------------------------------------------------
(* Format Detector: parser.js:52-80 *)

\* the number of leading lines detectFormat looks at (slice(0, 20))
DetectWindow == 20

\* the position after \s*(?:AM|PM|am|pm)? at position p
MeridiemEnd(s, p) ==
    LET w == Run(s, p, WhiteSpace)
    IN  IF \E m \in Meridiems : At(s, p + w, m) THEN p + w + 2 ELSE p + w

\* /^\[[\d\/]+,\s*[\d:]+\s*(?:AM|PM|am|pm)?\]/.test(line), parser.js:61
bracketTest(s) ==
    LET d  == Run(s, 2, Digits \cup {"/"})
        t0 == 3 + d + Run(s, 3 + d, WhiteSpace)
        t  == Run(s, t0, Digits \cup {":"})
    IN  /\ Ch(s, 1) = "["
        /\ d >= 1
        /\ Ch(s, 2 + d) = ","
        /\ t >= 1
        /\ Ch(s, MeridiemEnd(s, t0 + t)) = "]"

\* /^\[[\d\/]+,\s*\d{1,2}:\d{2}:\d{2}/.test(line), parser.js:63
secondsTest(s) ==
    LET d  == Run(s, 2, Digits \cup {"/"})
        t0 == 3 + d + Run(s, 3 + d, WhiteSpace)
        h  == Run(s, t0, Digits)
    IN  /\ Ch(s, 1) = "["
        /\ d >= 1
        /\ Ch(s, 2 + d) = ","
        /\ h \in 1..2
        /\ Ch(s, t0 + h) = ":"
        /\ IsDigit(Ch(s, t0 + h + 1)) /\ IsDigit(Ch(s, t0 + h + 2))
        /\ Ch(s, t0 + h + 3) = ":"
        /\ IsDigit(Ch(s, t0 + h + 4)) /\ IsDigit(Ch(s, t0 + h + 5))

\* /^[\d\/\.]+,\s*[\d:]+\s*(?:AM|PM|am|pm)?\s*-\s*[^:]+:/.test(line), parser.js:72
dashTest(s) ==
    LET d  == Run(s, 1, Digits \cup {"/", "."})
        t0 == 2 + d + Run(s, 2 + d, WhiteSpace)
        t  == Run(s, t0, Digits \cup {":"})
        m  == MeridiemEnd(s, t0 + t)
        dash == m + Run(s, m, WhiteSpace)
    IN  /\ d >= 1
        /\ Ch(s, 1 + d) = ","
        /\ t >= 1
        /\ Ch(s, dash) = "-"
        /\ SenderText(s, dash + 1).ok

RECURSIVE detectFrom(_, _)
\* the loop of detectFormat from line k of the window on
detectFrom(lines, k) ==
    IF k > Len(lines) THEN "ios"
    ELSE LET line == cleanText(lines[k])
         IN  IF line = <<>> THEN detectFrom(lines, k + 1)
             ELSE IF bracketTest(line)
                  THEN (IF secondsTest(line) THEN "ios" ELSE "android-bracket")
             ELSE IF dashTest(line) THEN "android-dash"
             ELSE detectFrom(lines, k + 1)

\* Array.prototype.slice(0, n)
slice0(lines, n) == SubSeq(lines, 1, IF Len(lines) < n THEN Len(lines) ELSE n)

detectFormat(lines) == detectFrom(slice0(lines, DetectWindow), 1)

---------------------------------------------------------------------------
(* Senders: parser.js:537-548 *)

\* sender.replace(/^~+/, '').trim() on a normalised sender
stripTilde(c) == trim(SubSeq(c, 1 + Run(c, 1, {"~"}), Len(c)))

cleanSenderNameOf(sender, t) == IF sender = <<>> \/ t = <<>> THEN W_Unknown ELSE t

\* parser.js:537-540
cleanSenderName(sender) == cleanSenderNameOf(sender, stripTilde(cleanText(sender)))

\* parser.js:545-548
isSystemSender(sender) ==
    LET s == toLowerCase(sender)
    IN  s = W_system \/ includes(s, W_whatsapp)

---------------------------------------------------------------------------
(* Media Resolver: parser.js:462-513 *)

RECURSIVE firstValue(_, _, _)
\* the value of the first entry from position k on whose key is in `keys`
firstValue(mf, keys, k) ==
    IF k > Len(mf) THEN Null
    ELSE IF mf[k].key \in keys THEN mf[k].value
    ELSE firstValue(mf, keys, k + 1)

keysOf(mf) == {mf[k].key : k \in 1..Len(mf)}

CategoryTags == {W_PHOTO, W_VIDEO, W_AUDIO, W_DOCUMENT, W_FILE}

\* the length of the category tag that stands in f at position tag, 0 when
\* none does
TagLen(f, tag) ==
    IF \E w \in CategoryTags : AtCI(f, tag, w)
    THEN Len(CHOOSE w \in CategoryTags : AtCI(f, tag, w)) ELSE 0

\* [-_\d]+\.\w+ at position n0, n the run of [-_\d] there
coreTail(f, n0, n) ==
    IF /\ n >= 1
       /\ Ch(f, n0 + n) = "."
       /\ Run(f, n0 + n + 1, Digits \cup UpperSet \cup LowerSet \cup {"_"}) >= 1
    THEN n0 + n + 1 + Run(f, n0 + n + 1, Digits \cup UpperSet \cup LowerSet \cup {"_"})
    ELSE 0

\* (?:PHOTO|VIDEO|AUDIO|DOCUMENT|FILE)[-_\d]+\.\w+ at position tag, t the
\* length of the tag there
coreTag(f, tag, t) ==
    IF t > 0 THEN coreTail(f, tag + t, Run(f, tag + t, Digits \cup {"-", "_"})) ELSE 0

\* the core pattern at position p, d the run of digits there
coreEndOf(f, p, d) ==
    IF d >= 5 /\ Ch(f, p + d) \in {"-", "_"}
    THEN coreTag(f, p + d + 1, TagLen(f, p + d + 1))
    ELSE 0

\* /(\d{5,}[-_](?:PHOTO|VIDEO|AUDIO|DOCUMENT|FILE)[-_\d]+\.\w+)/i at the start p
\* of a run of digits: the position after the match, 0 when it does not match
coreEnd(f, p) == coreEndOf(f, p, Run(f, p, Digits))

\* the starts of the runs of digits of f
runStarts(f) == {p \in 1..Len(f) : IsDigit(f[p]) /\ ~IsDigit(Ch(f, p - 1))}

\* the text of f matched by the core pattern at the least position of ps
coreMatchAt(f, ps) ==
    IF ps = {} THEN <<>> ELSE SubSeq(f, Least(ps), coreEnd(f, Least(ps)) - 1)

\* filename.match(core pattern): the matched text, <<>> when there is none
coreMatch(f) == coreMatchAt(f, {p \in runStarts(f) : coreEnd(f, p) /= 0})

numericPartAt(f, ps) ==
    IF ps = {} THEN <<>> ELSE SubSeq(f, Least(ps), Least(ps) + Run(f, Least(ps), Digits) - 1)

\* filename.match(/(\d{8,})/): the matched digits, <<>> when there are none
numericPart(f) == numericPartAt(f, {p \in runStarts(f) : Run(f, p, Digits) >= 8})

\* parser.js:472-475
exactMatch(f, mf) == firstValue(mf, {f}, 1)

\* parser.js:478-484
caseInsensitiveMatch(f, mf) ==
    firstValue(mf, {k \in keysOf(mf) : toLowerCase(k) = toLowerCase(f)}, 1)

\* parser.js:490-496: the first entry whose key and the core contain one another
coreLookup(core, mf) ==
    IF core = <<>> THEN Null
    ELSE firstValue(mf, {k \in keysOf(mf) : includes(k, core) \/ includes(core, k)}, 1)

\* parser.js:487-497
coreFilenameMatch(f, mf) == coreLookup(coreMatch(f), mf)

\* parser.js:503-508: the first entry whose key contains the digits
numericLookup(num, mf) ==
    IF num = <<>> THEN Null
    ELSE firstValue(mf, {k \in keysOf(mf) : includes(k, num)}, 1)

\* parser.js:500-509
numericMatch(f, mf) == numericLookup(numericPart(f), mf)

\* the first of the strategies, in the order given, that finds a value
RECURSIVE firstFound(_)
firstFound(rs) ==
    IF rs = <<>> THEN Null
    ELSE IF Head(rs) /= Null THEN Head(rs)
    ELSE firstFound(Tail(rs))

\* a faulty lookup: the strategies in the reverse order
findMediaFileReversed(filename, mf) ==
    IF filename = <<>> \/ Len(mf) = 0 THEN Null
    ELSE firstFound(<<numericMatch(filename, mf),
                      coreFilenameMatch(filename, mf),
                      caseInsensitiveMatch(filename, mf),
                      exactMatch(filename, mf)>>)

\* a faulty lookup: the first entry of the table, whatever the file name
firstOfTable(filename, mf) ==
    IF Len(mf) = 0 THEN Null ELSE mf[1].value

\* parser.js:462-513
findMediaFile(filename, mf) ==
    IF filename = <<>> \/ Len(mf) = 0 THEN Null
    ELSE firstFound(<<exactMatch(filename, mf),
                      caseInsensitiveMatch(filename, mf),
                      coreFilenameMatch(filename, mf),
                      numericMatch(filename, mf)>>)

\* parser.js:619-628
getMediaType(extension) ==
    LET ext == toLowerCase(extension)
    IN  IF ext \in {<<"j","p","g">>, <<"j","p","e","g">>, <<"p","n","g">>, <<"g","i","f">>,
                    <<"w","e","b","p">>, <<"h","e","i","c">>} THEN "image"
        ELSE IF ext \in {<<"m","p","4">>, <<"m","o","v">>, <<"a","v","i">>, <<"3","g","p">>,
                         <<"m","k","v">>} THEN "video"
        ELSE IF ext \in {<<"m","p","3">>, <<"o","g","g">>, <<"o","p","u","s">>, <<"m","4","a">>,
                         <<"w","a","v">>, <<"a","a","c">>} THEN "audio"
        ELSE IF ext \in {W_pdf, W_doc, W_docx, W_xls, W_xlsx} THEN "document"
        ELSE "file"

---------------------------------------------------------------------------
(* Searches of the Message Classifier: the regular expressions of
   parser.js:305-448 and 522-526 *)

RECURSIVE PhraseEnd(_, _, _)
\* words separated by \s*, letter case ignored, at position p: the position
\* after the phrase, 0 when it does not stand there
PhraseEnd(s, p, words) ==
    IF ~AtCI(s, p, Head(words)) THEN 0
    ELSE IF Len(words) = 1 THEN p + Len(Head(words))
    ELSE PhraseEnd(s, p + Len(Head(words)) + Run(s, p + Len(Head(words)), WhiteSpace),
                   Tail(words))

\* the positions of s where one of the phrases stands
PhraseStarts(s, phrases) == {p \in 1..Len(s) : \E ph \in phrases : PhraseEnd(s, p, ph) /= 0}

\* regexp.test(s) for an alternation of phrases
testPhrases(s, phrases) == PhraseStarts(s, phrases) /= {}

\* the end of the phrase of `phrases` that stands at p
PhraseEndAt(s, p, phrases) ==
    PhraseEnd(s, p, CHOOSE ph \in phrases : PhraseEnd(s, p, ph) /= 0)

\* the greatest element of a non-empty set of positions
Greatest(ps) == CHOOSE p \in ps : \A q \in ps : q <= p

\* the groups of an attachment marker whose colon ends before position a and
\* whose closing ">" is at c0
attachGroups(s, a, c0) ==
    IF c0 = a THEN NoMatch
    ELSE [ok |-> TRUE, stop |-> c0,
          cap |-> SubSeq(s, IF SkipSpace(s, a) < c0 THEN SkipSpace(s, a) ELSE c0 - 1, c0 - 1)]

attachFrom(s, a) ==
    IF a = 0 \/ \A c \in a..Len(s) : s[c] /= ">" THEN NoMatch
    ELSE attachGroups(s, a, Least({c \in a..Len(s) : s[c] = ">"}))

\* <\s*attached\s*:\s*([^>]+)> at position p: [ok, stop, cap], stop the position
\* of the closing ">" and cap the captured file name
attachAt(s, p) == attachFrom(s, PhraseEnd(s, p, <<(<<"<">>), W_attached, (<<":">>)>>))

attachFound(p, m) == [ok |-> TRUE, start |-> p, stop |-> m.stop, cap |-> m.cap]

attachMatchAt(s, ps) ==
    IF ps = {} THEN NoMatch ELSE attachFound(Least(ps), attachAt(s, Least(ps)))

\* text.match(/<\s*attached\s*:\s*([^>]+)>/i), parser.js:305: the leftmost match
attachMatch(s) == attachMatchAt(s, {p \in 1..Len(s) : attachAt(s, p).ok})

RECURSIVE removeAttach(_)
\* s without the attachment marker m and those after it
removeAttachOf(s, m) ==
    IF ~m.ok THEN s
    ELSE SubSeq(s, 1, m.start - 1) \o removeAttach(SubSeq(s, m.stop + 1, Len(s)))

\* text.replace(/<\s*attached\s*:[^>]+>/gi, ''), parser.js:330 and 522
removeAttach(s) == removeAttachOf(s, attachMatch(s))

\* (?:image|video|audio|sticker|document|GIF)\s*omitted
OmittedPhrases ==
    {<<W_image, W_omitted>>, <<W_video, W_omitted>>, <<W_audio, W_omitted>>,
     <<W_sticker, W_omitted>>, <<W_document, W_omitted>>, <<W_GIF, W_omitted>>}

RECURSIVE removePhrases(_, _)
\* s without the phrases that start at the positions ps
removePhrasesAt(s, phrases, ps) ==
    IF ps = {} THEN s
    ELSE SubSeq(s, 1, Least(ps) - 1)
         \o removePhrases(SubSeq(s, PhraseEndAt(s, Least(ps), phrases), Len(s)), phrases)

\* s.replace(/phrases/gi, '')
removePhrases(s, phrases) == removePhrasesAt(s, phrases, PhraseStarts(s, phrases))

\* the line terminator at or after position p that is the first
LineEndAt(s, ts) == IF ts = {} THEN Len(s) + 1 ELSE Least(ts)

\* the position of the line terminator that ends the line position p is in
\* (Len(s) + 1 when the line is the last)
LineEnd(s, p) == LineEndAt(s, {t \in p..Len(s) : s[t] \in LineTerminators})

bulletOmittedEndOf(s, p, es) ==
    IF Ch(s, p) /= "<BULLET>" \/ es = {} THEN 0 ELSE Greatest(es)

\* /<bullet>.*document\s*omitted/i at the bullet at p: the position after the
\* last "document omitted" that starts on the bullet's line, 0 when there is none
bulletOmittedEnd(s, p) ==
    bulletOmittedEndOf(s, p,
        {PhraseEnd(s, q, <<W_document, W_omitted>>) : q \in (p + 1)..(LineEnd(s, p) - 1)} \ {0})

\* /<bullet>.*document\s*omitted/i.test(s), parser.js:376
testBulletOmitted(s) == \E p \in 1..Len(s) : bulletOmittedEnd(s, p) /= 0

RECURSIVE removeBulletOmitted(_)
removeBulletOmittedAt(s, ps) ==
    IF ps = {} THEN s
    ELSE SubSeq(s, 1, Least(ps) - 1)
         \o removeBulletOmitted(SubSeq(s, bulletOmittedEnd(s, Least(ps)), Len(s)))

\* s.replace(/<bullet>.*document\s*omitted/gi, ''), parser.js:526
removeBulletOmitted(s) ==
    removeBulletOmittedAt(s, {p \in 1..Len(s) : bulletOmittedEnd(s, p) /= 0})

\* parser.js:518-532
cleanMessageText(text) ==
    IF text = <<>> THEN <<>>
    ELSE cleanText(removeBulletOmitted(removePhrases(removeAttach(text), OmittedPhrases)))

DocExtensions == {W_pdf, W_xls, W_xlsx, W_doc, W_docx, W_ppt, W_pptx}

\* where the name of a document entry with its bullet at b starts: after the
\* bullet before it, or at the start of the text
nameStartOf(prev) == IF prev = {} THEN 1 ELSE Greatest(prev) + 1

nameStart(s, b) == nameStartOf({q \in 1..(b - 1) : s[q] = "<BULLET>"})

\* ([^<bullet>]+\.(ext)) in start..e, xs the extensions that end at e
docNameOf(s, start, e, xs) ==
    IF xs = {} THEN NoMatch
    ELSE [ok |-> TRUE, name |-> SubSeq(s, start, e),
          ext |-> SubSeq(s, e - Len(CHOOSE x \in xs : TRUE) + 1, e)]

docNameIn(s, start, e, exts) ==
    docNameOf(s, start, e, {x \in exts : /\ AtCI(s, e - Len(x) + 1, x)
                                        /\ Ch(s, e - Len(x)) = "."
                                        /\ e - Len(x) > start})

\* ([^<bullet>]+\.(ext))\s* before the bullet at b: [ok, name, ext]
docName(s, b, exts) ==
    docNameIn(s, nameStart(s, b), b - 1 - RunBack(s, b - 1, WhiteSpace), exts)

\* units? at position u0 for the unit u: the position after it
unitEnd(s, u0, u) ==
    IF LowerChar(Ch(s, u0 + Len(u))) = "s" THEN u0 + Len(u) + 1 ELSE u0 + Len(u)

\* (\d+)\s*(units?) with n digits at n0 and the unit at u0, us the units that
\* stand there
docUnit(s, n0, n, u0, us) ==
    IF n >= 1 /\ us /= {}
    THEN [ok |-> TRUE,
          count |-> SubSeq(s, n0, n0 + n - 1),
          unit |-> SubSeq(s, u0, unitEnd(s, u0, CHOOSE u \in us : TRUE) - 1),
          stop |-> unitEnd(s, u0, CHOOSE u \in us : TRUE)]
    ELSE NoMatch

docUnitAt(s, n0, n, u0, units) == docUnit(s, n0, n, u0, {u \in units : AtCI(s, u0, u)})

docCountOf(s, n0, n, units) == docUnitAt(s, n0, n, SkipSpace(s, n0 + n), units)

docCountFrom(s, n0, units) == docCountOf(s, n0, Run(s, n0, Digits), units)

\* \s*(\d+)\s*(units?) after the bullet at b: [ok, count, unit, stop], stop the
\* position after the unit
docCount(s, b, units) == docCountFrom(s, SkipSpace(s, b + 1), units)

docJoin(l, r) ==
    IF l.ok /\ r.ok
    THEN [ok |-> TRUE, name |-> l.name, ext |-> l.ext,
          count |-> r.count, unit |-> r.unit, stop |-> r.stop]
    ELSE NoMatch

\* ([^<bullet>]+\.(ext))\s*<bullet>\s*(\d+)\s*(units?) around the bullet at b:
\* [ok, name, ext, count, unit, stop], name the first group, stop the position
\* after the unit
docAt(s, b, exts, units) ==
    IF Ch(s, b) = "<BULLET>" THEN docJoin(docName(s, b, exts), docCount(s, b, units))
    ELSE NoMatch

pdfGroups(d, at) ==
    IF d.ok /\ at.ok
    THEN [ok |-> TRUE, name |-> d.name, count |-> d.count, cap |-> at.cap]
    ELSE NoMatch

\* \s*<\s*attached\s*:\s*([^>]+)> after the document entry d
pdfAttach(s, d) == IF d.ok THEN attachAt(s, SkipSpace(s, d.stop)) ELSE NoMatch

pdfWith(s, d) == pdfGroups(d, pdfAttach(s, d))

\* the pattern of parser.js:350 around the bullet at b
pdfAt(s, b) == pdfWith(s, docAt(s, b, {W_pdf}, {W_page}))

pdfWithAttachMatchAt(s, bs) == IF bs = {} THEN NoMatch ELSE pdfAt(s, Least(bs))

\* text.match(/([^<bullet>]+\.pdf)\s*<bullet>\s*(\d+)\s*pages?\s*<\s*attached\s*:\s*([^>]+)>/i),
\* parser.js:350: [ok, name, count, cap]
pdfWithAttachMatch(s) == pdfWithAttachMatchAt(s, {b \in 1..Len(s) : pdfAt(s, b).ok})

docMatchAt(s, bs) ==
    IF bs = {} THEN NoMatch ELSE docAt(s, Least(bs), DocExtensions, {W_page, W_sheet})

\* text.match(/([^<bullet>]+\.(pdf|xlsx?|docx?|pptx?))\s*<bullet>\s*(\d+)\s*(pages?|sheets?)\s*(?:document\s*omitted)?/i),
\* parser.js:375
docMatch(s) ==
    docMatchAt(s, {b \in 1..Len(s) : docAt(s, b, DocExtensions, {W_page, W_sheet}).ok})

\* Voice\s*call|Video\s*call|Group\s*call
CallPhrases == {<<W_Voice, W_call>>, <<W_Video, W_call>>, <<W_Group, W_call>>}

\* the group (.+) of \s*(.+) at position r, p the position after the white
\* space and js the positions of that white space that hold no line terminator
detailsOf(s, p, js) ==
    IF p <= Len(s) THEN [ok |-> TRUE, text |-> SubSeq(s, p, LineEnd(s, p) - 1)]
    ELSE IF js /= {}
         THEN [ok |-> TRUE, text |-> SubSeq(s, Greatest(js), LineEnd(s, Greatest(js)) - 1)]
    ELSE NoMatch

detailsSpan(s, r, p) == detailsOf(s, p, {j \in r..(p - 1) : s[j] \notin LineTerminators})

\* \s*(.+) at position r: [ok, text].  "." stops at a line terminator; white
\* space that reaches the end of the text is given back to the group from its
\* last code point that is no line terminator.
detailsFrom(s, r) == detailsSpan(s, r, SkipSpace(s, r))

callDetailsOf(s, e, d) == IF Ch(s, e) = "," /\ d.ok THEN d ELSE detailsFrom(s, e)

\* the second group of /(call phrase)(?:,?\s*(.+))?/i after a phrase that ends
\* before position e (parser.js:399): [ok, text]
callDetails(s, e) == callDetailsOf(s, e, detailsFrom(s, e + 1))

\* parser.js:403-409: the call phrase, followed by its details when they
\* do not normalise to the empty string
callInfo(phrase, details) ==
    IF details /= <<>> THEN phrase \o <<",", " ">> \o details ELSE phrase

callDetailText(g2) == IF g2.ok THEN cleanText(g2.text) ELSE <<>>

callTextTo(s, p, e) == callInfo(SubSeq(s, p, e - 1), callDetailText(callDetails(s, e)))

callTextAt(s, p) == callTextTo(s, p, PhraseEndAt(s, p, CallPhrases))

\* parser.js:399-412: the text of a call message
callText(s) == callTextAt(s, Least(PhraseStarts(s, CallPhrases)))

TapPhrase == <<W_Tap, W_to, W_call, W_back>>

\* /Missed.*call/i.test(s)
testMissedCall(s) ==
    \E p \in 1..Len(s) :
        /\ AtCI(s, p, W_Missed)
        /\ \E q \in (p + Len(W_Missed))..(LineEnd(s, p) - 1) : AtCI(s, q, W_call)

\* ,? before the white space that starts at w
tapCut(s, w) == IF Ch(s, w - 1) = "," THEN w - 1 ELSE w

removeTapAt(s, t) ==
    SubSeq(s, 1, tapCut(s, t - RunBack(s, t - 1, WhiteSpace)) - 1)
    \o SubSeq(s, PhraseEnd(s, t, TapPhrase), Len(s))

removeTapIn(s, ts) == IF ts = {} THEN s ELSE removeTapAt(s, Least(ts))

\* text.replace(/,?\s*Tap\s*to\s*call\s*back/i, ''), parser.js:421: the first
\* match goes, with the white space and the comma before it
removeTapToCallBack(s) == removeTapIn(s, PhraseStarts(s, {TapPhrase}))

\* (Voice\s*call|Video\s*call), parser.js:425
CallTypes == {<<W_Voice, W_call>>, <<W_Video, W_call>>}

\* parser.js:425-426
noAnswerText(c, types) ==
    IF types /= {}
    THEN SubSeq(c, Least(types), PhraseEndAt(c, Least(types), CallTypes) - 1) \o W_NoAnswerText
    ELSE W_CallNoAnswer

\* parser.js:424-429 on the cleaned text
missedCallTextOf(c) ==
    IF testPhrases(c, {<<W_No, W_answer>>}) THEN noAnswerText(c, PhraseStarts(c, CallTypes))
    ELSE IF c /= <<>> THEN c
    ELSE W_MissedCall

\* parser.js:420-429: the text of a missed call message
missedCallText(s) == missedCallTextOf(trim(removeTapToCallBack(s)))

\* /created group|added|left|removed|changed the subject|changed this group/i
GroupEventWords ==
    {<<W_createdGroup>>, <<W_added>>, <<W_left>>, <<W_removed>>,
     <<W_changedSubject>>, <<W_changedGroup>>}

---------------------------------------------------------------------------
(* Message Classifier: parser.js:301-457 *)

\* a string field that is null
NullStr == <<"<null>">>

\* parser.js:308-311: the file name of an attachment marker, as looked up
attachmentFilename(cap) ==
    trim(SelectSeq(cleanText(cap), LAMBDA c : IsWord(c) \/ c \in {".", "-"}))

\* Array.prototype.pop on a non-empty array
pop(parts) == parts[Len(parts)]

\* filename.split('.').pop().toLowerCase(), parser.js:315
extensionOf(filename) == toLowerCase(pop(split(filename, {"."})))

\* parser.js:320-330: the message with the attachment it names
attachmentMessage(message, text, filename, extension, mediaData) ==
    [message EXCEPT
        !.media = [filename |-> filename, displayName |-> NullStr,
                   type |-> getMediaType(extension), extension |-> extension,
                   data |-> mediaData, hasData |-> mediaData /= Null,
                   pages |-> NullStr],
        !.type = "media",
        !.text = trim(removeAttach(text))]

attachmentOf(message, text, filename, mf) ==
    attachmentMessage(message, text, filename, extensionOf(filename),
                      findMediaFile(filename, mf))

\* parser.js:304-332
attachmentBranch(message, text, m, mf) ==
    attachmentOf(message, text, attachmentFilename(m.cap), mf)

\* a faulty omitted branch: the type is set, the media entry is not
omittedWithoutMedia(message) ==
    [message EXCEPT !.type = "media_omitted", !.text = <<>>]

\* parser.js:334-346
omittedBranch(message) ==
    [message EXCEPT
        !.media = [filename |-> NullStr, displayName |-> NullStr, type |-> "omitted",
                   extension |-> NullStr, data |-> Null, hasData |-> FALSE,
                   pages |-> NullStr],
        !.type = "media_omitted",
        !.text = <<>>]

\* parser.js:359-369: the message with the document it names
pdfMessage(message, displayName, pages, actualFilename, mediaData) ==
    [message EXCEPT
        !.media = [filename |-> actualFilename, displayName |-> displayName,
                   type |-> "document", extension |-> W_pdf,
                   data |-> mediaData, hasData |-> mediaData /= Null,
                   pages |-> pages],
        !.type = "document",
        !.text = displayName \o <<" ", "<BULLET>", " ">> \o pages
                 \o <<" ", "p", "a", "g", "e", "s">>]

pdfOf(message, displayName, pages, actualFilename, mf) ==
    pdfMessage(message, displayName, pages, actualFilename,
               findMediaFile(actualFilename, mf))

\* parser.js:348-371
pdfBranch(message, m, mf) == pdfOf(message, trim(m.name), m.count, cleanText(m.cap), mf)

\* parser.js:383-392: the message with the document entry it names
documentOmittedMessage(message, filename, extension, count, text) ==
    [message EXCEPT
        !.media = [filename |-> filename, displayName |-> NullStr,
                   type |-> "document", extension |-> extension,
                   data |-> Null, hasData |-> FALSE, pages |-> count],
        !.type = "document_omitted",
        !.text = text]

documentEntry(message, filename, m) ==
    documentOmittedMessage(message, filename, toLowerCase(m.ext), m.count,
        filename \o <<" ", "<BULLET>", " ">> \o m.count \o <<" ">> \o m.unit)

\* parser.js:373-393
documentOmittedBranch(message, m) ==
    IF m.ok THEN documentEntry(message, trim(m.name), m)
    ELSE documentOmittedMessage(message, NullStr, NullStr, NullStr, <<>>)

\* parser.js:440-445: the group-event test
markSystem(message, text) ==
    IF \/ testPhrases(text, {<<W_encrypted>>})
       \/ testPhrases(text, GroupEventWords)
    THEN [message EXCEPT !.isSystem = TRUE, !.type = "system"]
    ELSE message

\* parser.js:447-456: the edit marker, plain text
editedOrText(m1, text) ==
    IF testPhrases(text, {<<W_edited>>})
    THEN [m1 EXCEPT !.isEdited = TRUE,
                    !.text = cleanMessageText(trim(removePhrases(text, {<<W_edited>>})))]
    ELSE [m1 EXCEPT !.text = cleanMessageText(text)]

\* parser.js:440-456
textBranch(message, text) == editedOrText(markSystem(message, text), text)

\* parser.js:395-456: the branches for a text that names no media
plainBranches(message, text) ==
    IF testPhrases(text, CallPhrases)
    THEN [message EXCEPT !.type = "call", !.text = callText(text)]
    ELSE IF \/ testMissedCall(text)
            \/ testPhrases(text, {<<W_No, W_answer>>, TapPhrase})
         THEN [message EXCEPT !.type = "missed_call", !.text = missedCallText(text)]
    ELSE IF testPhrases(text, {<<W_deleted1>>, <<W_deleted2>>})
         THEN [message EXCEPT !.type = "deleted", !.text = W_deleted1]
    ELSE textBranch(message, text)

\* parser.js:373-456
documentBranches(message, text, m) ==
    IF m.ok \/ testBulletOmitted(text) THEN documentOmittedBranch(message, m)
    ELSE plainBranches(message, text)

\* parser.js:348-456
pdfBranches(message, text, m, mf) ==
    IF m.ok THEN pdfBranch(message, m, mf)
    ELSE documentBranches(message, text, docMatch(text))

\* parser.js:304-456
mediaBranches(message, text, m, mf) ==
    IF m.ok THEN attachmentBranch(message, text, m, mf)
    ELSE IF testPhrases(text, OmittedPhrases) THEN omittedBranch(message)
    ELSE pdfBranches(message, text, pdfWithAttachMatch(text), mf)

\* parser.js:301-457: the message as finalizeMessage leaves it
finalizeMessage(message, mf) ==
    mediaBranches(message, message.rawText, attachMatch(message.rawText), mf)

\* a faulty filter: a quoted message does not keep a message
keepWithoutQuote(msg) ==
    \/ msg.media /= Null
    \/ trim(msg.text) /= <<>>
    \/ msg.isSystem
    \/ msg.type \in {"call", "missed_call", "deleted"}

\* the test of the filter of cleanupMessages, parser.js:274-295
keepMessage(msg) ==
    \/ msg.media /= Null
    \/ msg.quotedMessage /= Null
    \/ trim(msg.text) /= <<>>
    \/ msg.isSystem
    \/ msg.type \in {"call", "missed_call"}
    \/ msg.type = "deleted"

\* a faulty cleanup: the kept messages, the last one first
RECURSIVE cleanupReversed(_)
cleanupReversed(msgs) ==
    IF msgs = <<>> THEN <<>>
    ELSE cleanupReversed(Tail(msgs)) \o SelectSeq(<<Head(msgs)>>, keepMessage)

\* parser.js:273-296
cleanupMessages(msgs) == SelectSeq(msgs, keepMessage)

---------------------------------------------------------------------------
(* Display fields and Stats Aggregator: parser.js:633-698 *)

\* parser.js:633-640: the time of day on a 12-hour clock
formatTime(date) ==
    LET h == date.sec \div 3600
    IN  [hour |-> IF h % 12 = 0 THEN 12 ELSE h % 12,
         minute |-> (date.sec \div 60) % 60,
         period |-> IF h < 12 THEN "AM" ELSE "PM"]

\* the year a day of the epoch falls in
RECURSIVE yearFrom(_, _)
yearFrom(day, y) == IF DaysFromCivil(y + 1, 1, 1) > day THEN y ELSE yearFrom(day, y + 1)

\* Date.prototype.getFullYear
getFullYear(date) ==
    yearFrom(date.day, 1970 + (IF date.day >= 0 THEN date.day \div 366 ELSE date.day \div 365))

\* parser.js:645-661: "Today", "Yesterday", or the day, with its year unless
\* that is the year of `now`
formatDate(date, now) ==
    IF date.day = now.day THEN [label |-> "Today"]
    ELSE IF date.day = now.day - 1 THEN [label |-> "Yesterday"]
    ELSE [label |-> "date", day |-> date.day,
          year |-> getFullYear(date) /= getFullYear(now)]

\* the least and the greatest of a non-empty set of dates
minDate(ds) == CHOOSE d \in ds : \A e \in ds : ~DateLess(e, d)

maxDate(ds) == CHOOSE d \in ds : \A e \in ds : ~DateLess(d, e)

\* the placeholder of a date range without dates
NoDateRange == [text |-> "-"]

\* parser.js:692-698: "-" without dates, one day when both fall on the same
\* day, otherwise the two days
formatDateRange(start, end) ==
    IF start = Null \/ end = Null THEN NoDateRange
    ELSE IF start.day = end.day THEN [text |-> "day", start |-> start.day]
    ELSE [text |-> "days", start |-> start.day, end |-> end.day]

\* parser.js:676-677: the first and the last of the dates, null without dates
firstOf(dates) == IF dates = {} THEN Null ELSE minDate(dates)

lastOf(dates) == IF dates = {} THEN Null ELSE maxDate(dates)

\* parser.js:679-686
statsOf(msgs, parts, media, firstDate, lastDate) ==
    [totalMessages |-> Len(msgs),
     mediaMessages |-> Len(media),
     participants |-> Len(parts),
     firstDate |-> firstDate,
     lastDate |-> lastDate,
     dateRange |-> formatDateRange(firstDate, lastDate)]

statsFrom(msgs, parts, media, dates) ==
    statsOf(msgs, parts, media, firstOf(dates), lastOf(dates))

\* a faulty aggregation: the timestamps are not collected
calculateStatsWithoutDates(msgs, parts) ==
    statsFrom(msgs, parts,
              SelectSeq(msgs, LAMBDA m : m.type \in {"media", "media_omitted", "document_omitted"}),
              {})

\* parser.js:666-687
calculateStats(msgs, parts) ==
    statsFrom(msgs, parts,
              SelectSeq(msgs, LAMBDA m : m.type \in {"media", "media_omitted", "document_omitted"}),
              {msgs[k].timestamp : k \in 1..Len(msgs)})

---------------------------------------------------------------------------
(* Boundary Scanner: the loop of parse, parser.js:88-268 *)

\* content.replace(/\r\n/g, '\n') on line k of a text: the carriage return
\* that stands before a line feed goes with it
chopReturn(lines, k) ==
    IF k < Len(lines) /\ lines[k] /= <<>> /\ lines[k][Len(lines[k])] = "<CR>"
    THEN SubSeq(lines[k], 1, Len(lines[k]) - 1)
    ELSE lines[k]

RECURSIVE splitFrom(_, _)
\* the lines of a text from its line k on; a lone carriage return ends a line too
splitFrom(lines, k) ==
    IF k > Len(lines) THEN <<>>
    ELSE split(chopReturn(lines, k), {"<CR>"}) \o splitFrom(lines, k + 1)

\* parser.js:90: the empty text is one empty line
splitLines(lines) == IF lines = <<>> THEN <<(<<>>)>> ELSE splitFrom(lines, 1)

\* parser.js:112: the line the scanner is at, cleaned
line == cleanText(rawLines[i])

\* parser.js:118
matchOf(l) == messagePattern(exportFormat, l)

match == matchOf(line)

\* parser.js:122 (and 153, 229): the timestamp of the header groups m
timestampOf(m) == parseDateTime(m.dateStr, m.timeStr, clock)

timestamp == timestampOf(match)

\* a faulty quote test: the header is later than the last one
isQuotedMessageLater(ts) ==
    /\ lastTimestamp /= Null
    /\ DateLess(lastTimestamp, ts)
    /\ currentMessage /= Null
    /\ trim(currentMessage.rawText) = <<>>

\* parser.js:129-132 for a header with the timestamp ts
isQuotedMessageAt(ts) ==
    /\ lastTimestamp /= Null
    /\ DateLess(ts, lastTimestamp)
    /\ currentMessage /= Null
    /\ trim(currentMessage.rawText) = <<>>

isQuotedMessage == isQuotedMessageAt(timestamp)

\* parser.js:150: the line after the current one, cleaned
nextLine == IF i + 1 <= Len(rawLines) THEN cleanText(rawLines[i + 1]) ELSE <<>>

\* parser.js:151-154: the next line is a header with a timestamp before ts
earlierHeader(nextMatch, ts) == nextMatch.ok /\ DateLess(timestampOf(nextMatch), ts)

\* parser.js:148-154 for a header with the groups m and the timestamp ts
isQuoteContainerAt(m, ts) ==
    /\ trim(m.text) = <<>>
    /\ currentMessage /= Null
    /\ earlierHeader(matchOf(nextLine), ts)

isQuoteContainer == isQuoteContainerAt(match, timestamp)

\* parser.js:160-170, 189-199, 226-235: a message as it is opened
newMessage(id, ts, sender, rawText, type, isSystem) ==
    [id |-> id, timestamp |-> ts, sender |-> sender, rawText |-> rawText,
     text |-> <<>>, type |-> type, media |-> Null, isSystem |-> isSystem,
     hasQuote |-> FALSE, quotedMessage |-> Null, isEdited |-> FALSE]

\* the open message pushed as it stands, without the classification
pushedUnfinalized == IF currentMessage = Null THEN messages
                     ELSE Append(messages, currentMessage)

\* parser.js:178-181 (and 156-159, 242-245): the open message is finalized and pushed
pushed == IF currentMessage = Null THEN messages
          ELSE Append(messages, finalizeMessage(currentMessage, mediaFiles))

\* the history of finalizeMessage calls after the open message is closed
closed == IF currentMessage = Null THEN finalized
          ELSE Append(finalized, currentMessage.id)

\* parser.js:184-187: participants.set(sender, count + 1)
tracked(parts, sender) ==
    IF \E k \in 1..Len(parts) : parts[k].name = sender
    THEN [k \in 1..Len(parts) |->
            IF parts[k].name = sender
            THEN [name |-> sender, count |-> parts[k].count + 1]
            ELSE parts[k]]
    ELSE Append(parts, [name |-> sender, count |-> 1])

\* parser.js:184-187
trackParticipant(parts, sender) ==
    IF isSystemSender(sender) THEN parts ELSE tracked(parts, sender)

Scanning == pc = "scan" /\ i <= Len(rawLines)

Frame == UNCHANGED <<content, mediaFiles, clock, rawLines, exportFormat, result, fname, found,
                    dateStr, timeStr, resolved, rawLine, cleaned,
                   zip, pending, chatContent>>

\* parser.js:88-108
ParseStart ==
    /\ pc = "start"
    /\ pc' = "scan"
    /\ rawLines' = splitLines(content)
    /\ exportFormat' = detectFormat(content)
    /\ i' = 1
    /\ messages' = <<>>
    /\ participants' = <<>>
    /\ currentMessage' = Null
    /\ lastTimestamp' = Null
    /\ UNCHANGED <<content, mediaFiles, clock, result, opened, finalized, fname, found,
                   dateStr, timeStr, resolved, rawLine, cleaned,
                   zip, pending, chatContent>>

\* parser.js:115
SkipEmptyLine ==
    /\ Scanning
    /\ line = <<>>
    /\ i' = i + 1
    /\ UNCHANGED <<pc, messages, participants, currentMessage, lastTimestamp, opened, finalized>>
    /\ Frame

\* parser.js:120-123: a step on a header, given its groups, its timestamp and
\* its sender
HeaderAt(Handler(_, _, _), m, ts) == Handler(m, ts, cleanSenderName(m.sender))

\* parser.js:115-120: a step the scanner takes on a line that is a header
HeaderStep(Handler(_, _, _), l, m) == l /= <<>> /\ m.ok /\ HeaderAt(Handler, m, timestampOf(m))

OnHeaderLine(Handler(_, _, _), l) == HeaderStep(Handler, l, matchOf(l))

\* parser.js:115-120, 202-210: a step the scanner takes on a line that is no header
BodyStep(Handler(_), l, m) == l /= <<>> /\ ~m.ok /\ Handler(l)

OnBodyLine(Handler(_), l) == BodyStep(Handler, l, matchOf(l))

QuoteMergeAt(m, ts, sender) ==
    /\ isQuotedMessageAt(ts)
    /\ currentMessage' =
         [currentMessage EXCEPT
            !.quotedMessage = [timestamp |-> ts, sender |-> sender, text |-> m.text],
            !.rawText = <<>>,
            !.hasQuote = TRUE]
    /\ i' = i + 1
    /\ UNCHANGED <<pc, messages, participants, lastTimestamp, opened, finalized>>
    /\ Frame

\* parser.js:134-144
QuoteMerge == Scanning /\ OnHeaderLine(QuoteMergeAt, line)

OpenKeepsTimestamp(all, ts, sender, rawText, by) ==
    /\ messages' = all
    /\ finalized' = closed
    /\ currentMessage' = newMessage(Len(all), ts, sender, rawText, "text", FALSE)
    /\ opened' = Append(opened, [id |-> Len(all), sender |-> sender, line |-> i, by |-> by])
    /\ lastTimestamp' = IF lastTimestamp = Null THEN ts ELSE lastTimestamp
    /\ i' = i + 1
    /\ UNCHANGED pc
    /\ Frame

\* parser.js:156-172, 178-201: the open message is closed, into `all`, and a
\* message is opened
Open(all, ts, sender, rawText, by) ==
    /\ messages' = all
    /\ finalized' = closed
    /\ currentMessage' = newMessage(Len(all), ts, sender, rawText, "text", FALSE)
    /\ opened' = Append(opened, [id |-> Len(all), sender |-> sender, line |-> i, by |-> by])
    /\ lastTimestamp' = ts
    /\ i' = i + 1
    /\ UNCHANGED pc
    /\ Frame

OpenQuoteContainerAt(m, ts, sender) ==
    /\ ~isQuotedMessageAt(ts)
    /\ isQuoteContainerAt(m, ts)
    /\ Open(pushed, ts, sender, <<>>, "container")
    /\ UNCHANGED participants

\* parser.js:148-173
OpenQuoteContainer == Scanning /\ OnHeaderLine(OpenQuoteContainerAt, line)

OpenMessageAt(m, ts, sender) ==
    /\ ~isQuotedMessageAt(ts)
    /\ ~isQuoteContainerAt(m, ts)
    /\ Open(pushed, ts, sender, m.text, "header")
    /\ participants' = trackParticipant(participants, sender)

\* parser.js:177-201
OpenMessage == Scanning /\ OnHeaderLine(OpenMessageAt, line)

\* a faulty continuation: the line is appended also to a message that
\* waits for the text of its reply
ContinuationAppends(l) ==
    /\ currentMessage /= Null
    /\ currentMessage' =
         [currentMessage EXCEPT !.rawText = currentMessage.rawText \o <<"\n">> \o l]
    /\ i' = i + 1
    /\ UNCHANGED <<pc, messages, participants, lastTimestamp, opened, finalized>>
    /\ Frame

ContinuationAt(l) ==
    /\ currentMessage /= Null
    /\ currentMessage' =
         [currentMessage EXCEPT
            !.rawText = IF currentMessage.hasQuote /\ currentMessage.rawText = <<>>
                        THEN l
                        ELSE currentMessage.rawText \o <<"\n">> \o l]
    /\ i' = i + 1
    /\ UNCHANGED <<pc, messages, participants, lastTimestamp, opened, finalized>>
    /\ Frame

\* parser.js:202-209
Continuation == Scanning /\ OnBodyLine(ContinuationAt, line)

\* a faulty opening: System is counted as a participant
OrphanOpenTracked(sysMatch, ts) ==
    /\ currentMessage' = newMessage(Len(messages), ts, W_System, sysMatch.text, "system", TRUE)
    /\ lastTimestamp' = ts
    /\ opened' = Append(opened, [id |-> Len(messages), sender |-> W_System, line |-> i,
                                 by |-> "orphan"])
    /\ participants' = tracked(participants, W_System)
    /\ i' = i + 1
    /\ UNCHANGED <<pc, messages, finalized>>
    /\ Frame

\* parser.js:225-236: a System message is opened
OrphanOpen(sysMatch, ts) ==
    /\ currentMessage' = newMessage(Len(messages), ts, W_System, sysMatch.text, "system", TRUE)
    /\ lastTimestamp' = ts
    /\ opened' = Append(opened, [id |-> Len(messages), sender |-> W_System, line |-> i,
                                 by |-> "orphan"])
    /\ i' = i + 1
    /\ UNCHANGED <<pc, messages, participants, finalized>>
    /\ Frame

OrphanSystemOf(sysMatch) == sysMatch.ok /\ OrphanOpen(sysMatch, timestampOf(sysMatch))

OrphanSystemAnywhere(l) == OrphanSystemOf(sysPattern(exportFormat, l))

\* parser.js:202, 210: only without an open message
OrphanSystemAt(l) == currentMessage = Null /\ OrphanSystemOf(sysPattern(exportFormat, l))

\* parser.js:210-237: a line without a sender opens a System message
OrphanSystem == Scanning /\ OnBodyLine(OrphanSystemAt, line)

OrphanDiscardAt(l) ==
    /\ currentMessage = Null
    /\ ~sysPattern(exportFormat, l).ok
    /\ i' = i + 1
    /\ UNCHANGED <<pc, messages, participants, currentMessage, lastTimestamp, opened, finalized>>
    /\ Frame

\* parser.js:210-238: any other line without an open message is dropped
OrphanDiscard == Scanning /\ OnBodyLine(OrphanDiscardAt, line)

\* parser.js:262-264: the entries, most messages first (the sort is stable)
RECURSIVE sortByCount(_)
sortByCount(parts) ==
    IF parts = <<>> THEN <<>>
    ELSE LET top == CHOOSE k \in 1..Len(parts) :
                        /\ \A j \in 1..Len(parts) : parts[j].count <= parts[k].count
                        /\ \A j \in 1..(k - 1) : parts[j].count < parts[k].count
         IN  <<parts[top]>> \o sortByCount(SubSeq(parts, 1, top - 1) \o SubSeq(parts, top + 1, Len(parts)))

\* parser.js:251-255
processed(msgs, now) ==
    [k \in 1..Len(msgs) |->
        msgs[k] @@ [formattedTime |-> formatTime(msgs[k].timestamp),
                    formattedDate |-> formatDate(msgs[k].timestamp, now)]]

\* parser.js:257-267: the returned object
Finish(all, processedMessages) ==
    /\ messages' = all
    /\ result' = [messages |-> processedMessages,
                  participants |-> sortByCount(participants),
                  stats |-> calculateStats(processedMessages, participants),
                  exportFormat |-> exportFormat]

\* parser.js:247-255
FinishWith(all) == Finish(all, processed(cleanupMessages(all), clock))

\* parser.js:241-268: the last message is closed, the result is built
EndOfInput ==
    /\ pc = "scan"
    /\ i > Len(rawLines)
    /\ FinishWith(pushed)
    /\ finalized' = closed
    /\ currentMessage' = Null
    /\ pc' = "done"
    /\ UNCHANGED <<content, mediaFiles, clock, rawLines, exportFormat, i, participants,
                   lastTimestamp, opened, fname, found,
                   dateStr, timeStr, resolved, rawLine, cleaned,
                   zip, pending, chatContent>>

---------------------------------------------------------------------------
(* The inputs of the model *)

\* [1/2/24, 10:00:00 AM] Alice: Hi
L_AliceHi ==
    <<"[", "1", "/", "2", "/", "2", "4", ",", " ", "1", "0", ":", "0", "0", ":", "0", "0", " ", "A", "M", "]", " ", "A", "l", "i", "c", "e", ":", " ", "H", "i">>

\* {LRM}[1/2/24, 10:05:00{NNBSP}AM] Alice: {CR}
L_AliceEmpty ==
    <<"<LRM>", "[", "1", "/", "2", "/", "2", "4", ",", " ", "1", "0", ":", "0", "5", ":", "0", "0", "<NNBSP>", "A", "M", "]", " ", "A", "l", "i", "c", "e", ":", " ", "<CR>">>

\* [1/2/24, 09:59:00 AM] Bob: Hi
L_BobEarly ==
    <<"[", "1", "/", "2", "/", "2", "4", ",", " ", "0", "9", ":", "5", "9", ":", "0", "0", " ", "A", "M", "]", " ", "B", "o", "b", ":", " ", "H", "i">>

\* ok
L_Reply ==
    <<"o", "k">>

\*  
L_Blank ==
    <<" ">>

\* [1/2/24, 10:05:00 AM] Alice: {LRM}<attached: IMG-001.jpg>
L_AliceAttach ==
    <<"[", "1", "/", "2", "/", "2", "4", ",", " ", "1", "0", ":", "0", "5", ":", "0", "0", " ", "A", "M", "]", " ", "A", "l", "i", "c", "e", ":", " ", "<LRM>", "<", "a", "t", "t", "a", "c", "h", "e", "d", ":", " ", "I", "M", "G", "-", "0", "0", "1", ".", "j", "p", "g", ">">>

\* [1/2/24, 10:06:00 AM] Bob: image omitted
L_BobOmitted ==
    <<"[", "1", "/", "2", "/", "2", "4", ",", " ", "1", "0", ":", "0", "6", ":", "0", "0", " ", "A", "M", "]", " ", "B", "o", "b", ":", " ", "i", "m", "a", "g", "e", " ", "o", "m", "i", "t", "t", "e", "d">>

\* [1/2/24, 09:58:00 AM] Bob left
L_SystemLeft ==
    <<"[", "1", "/", "2", "/", "2", "4", ",", " ", "0", "9", ":", "5", "8", ":", "0", "0", " ", "A", "M", "]", " ", "B", "o", "b", " ", "l", "e", "f", "t">>

\* [1/2/24, 09:58:00 AM] WhatsApp: Hi
L_WhatsApp ==
    <<"[", "1", "/", "2", "/", "2", "4", ",", " ", "0", "9", ":", "5", "8", ":", "0", "0", " ", "A", "M", "]", " ", "W", "h", "a", "t", "s", "A", "p", "p", ":", " ", "H", "i">>

\* 1/2/24, 10:05 - Bob: Hi
L_DashBob ==
    <<"1", "/", "2", "/", "2", "4", ",", " ", "1", "0", ":", "0", "5", " ", "-", " ", "B", "o", "b", ":", " ", "H", "i">>

\* the lines a chat text is made of
Lines ==
    {L_AliceHi, L_AliceEmpty, L_BobEarly, L_Reply, L_Blank,
     L_AliceAttach, L_BobOmitted, L_SystemLeft, L_WhatsApp, L_DashBob}

\* the longest chat text, in lines
MaxLines == 3

Contents == UNION {[1..n -> Lines] : n \in 0..MaxLines}

\* IMG-001.jpg
K_Img001 ==
    <<"I", "M", "G", "-", "0", "0", "1", ".", "j", "p", "g">>

\* my pic.jpg
K_MyPic ==
    <<"m", "y", " ", "p", "i", "c", ".", "j", "p", "g">>

\* the payloads of the lookup tables: data URLs, which are never empty
Payload(n) == [data |-> n]

Tables ==
    {<<>>,
     <<[key |-> K_Img001, value |-> Payload(1)]>>,
     <<[key |-> K_MyPic, value |-> Payload(2)]>>}

\* 2024-01-03, noon
Clocks == {[day |-> 19725, sec |-> 43200]}

\* the instants of two calls of parse: 2024-01-03 at noon, the day after the
\* day of the chat lines, and 2024-01-04 at noon
CallInstants == Clocks \cup {[day |-> 19726, sec |-> 43200]}

---------------------------------------------------------------------------
(* The parse of one chat text *)

Init ==
    /\ content \in Contents
    /\ mediaFiles \in Tables
    /\ clock \in Clocks
    /\ pc = "start"
    /\ rawLines = <<>>
    /\ i = 1
    /\ exportFormat = "ios"
    /\ messages = <<>>
    /\ participants = <<>>
    /\ currentMessage = Null
    /\ lastTimestamp = Null
    /\ result = Null
    /\ opened = <<>>
    /\ finalized = <<>>
    /\ fname = <<>>
    /\ found = Null
    /\ dateStr = <<>>
    /\ timeStr = <<>>
    /\ resolved = Null
    /\ rawLine = <<>>
    /\ cleaned = Null
    /\ zip = <<>>
    /\ pending = {}
    /\ chatContent = Null

Next ==
    \/ ParseStart
    \/ SkipEmptyLine
    \/ QuoteMerge
    \/ OpenQuoteContainer
    \/ OpenMessage
    \/ Continuation
    \/ OrphanSystem
    \/ OrphanDiscard
    \/ EndOfInput

Spec == Init /\ [][Next]_vars

\* parser.js:88-108: parse is called at one of two instants, without media
InitAnyTime ==
    /\ content \in Contents
    /\ mediaFiles = <<>>
    /\ clock \in CallInstants
    /\ pc = "start"
    /\ rawLines = <<>>
    /\ i = 1
    /\ exportFormat = "ios"
    /\ messages = <<>>
    /\ participants = <<>>
    /\ currentMessage = Null
    /\ lastTimestamp = Null
    /\ result = Null
    /\ opened = <<>>
    /\ finalized = <<>>
    /\ fname = <<>>
    /\ found = Null
    /\ dateStr = <<>>
    /\ timeStr = <<>>
    /\ resolved = Null
    /\ rawLine = <<>>
    /\ cleaned = Null
    /\ zip = <<>>
    /\ pending = {}
    /\ chatContent = Null

SpecAnyTime == InitAnyTime /\ [][Next]_vars

\* [1/2/24, 10:01:00 AM] Bob: 
L_BobEmpty ==
    <<"[", "1", "/", "2", "/", "2", "4", ",", " ", "1", "0", ":", "0", "1", ":", "0", "0", " ", "A", "M", "]", " ", "B", "o", "b", ":", " ">>

\* lines of chats with replies: headers with and without text at four
\* instants, a line of text, a blank line and a line without a sender
QuoteLines ==
    {L_AliceHi, L_AliceEmpty, L_BobEmpty, L_BobEarly, L_Reply, L_Blank, L_SystemLeft}

QuoteContents == UNION {[1..n -> QuoteLines] : n \in 0..MaxLines}

\* parser.js:88-108: parse is called on a chat with replies, without media
InitQuote ==
    /\ content \in QuoteContents
    /\ mediaFiles = <<>>
    /\ clock \in Clocks
    /\ pc = "start"
    /\ rawLines = <<>>
    /\ i = 1
    /\ exportFormat = "ios"
    /\ messages = <<>>
    /\ participants = <<>>
    /\ currentMessage = Null
    /\ lastTimestamp = Null
    /\ result = Null
    /\ opened = <<>>
    /\ finalized = <<>>
    /\ fname = <<>>
    /\ found = Null
    /\ dateStr = <<>>
    /\ timeStr = <<>>
    /\ resolved = Null
    /\ rawLine = <<>>
    /\ cleaned = Null
    /\ zip = <<>>
    /\ pending = {}
    /\ chatContent = Null

SpecQuote == InitQuote /\ [][Next]_vars

---------------------------------------------------------------------------
(* The classification of one message *)

\* Hi
T_Hi ==
    <<"H", "i">>

\* <attached: IMG-001.jpg>
T_Attach ==
    <<"<", "a", "t", "t", "a", "c", "h", "e", "d", ":", " ", "I", "M", "G", "-", "0", "0", "1", ".", "j", "p", "g", ">">>

\* <attached: my pic.jpg>
T_AttachSpace ==
    <<"<", "a", "t", "t", "a", "c", "h", "e", "d", ":", " ", "m", "y", " ", "p", "i", "c", ".", "j", "p", "g", ">">>

\* {LRM}<attached: IMG-001.jpg> look
T_AttachCaption ==
    <<"<LRM>", "<", "a", "t", "t", "a", "c", "h", "e", "d", ":", " ", "I", "M", "G", "-", "0", "0", "1", ".", "j", "p", "g", ">", " ", "l", "o", "o", "k">>

\* image omitted
T_ImageOmitted ==
    <<"i", "m", "a", "g", "e", " ", "o", "m", "i", "t", "t", "e", "d">>

\* {LRM}GIF omitted
T_GifOmitted ==
    <<"<LRM>", "G", "I", "F", " ", "o", "m", "i", "t", "t", "e", "d">>

\* report.pdf {BULLET} 3 pages <attached: report.pdf>
T_PdfAttach ==
    <<"r", "e", "p", "o", "r", "t", ".", "p", "d", "f", " ", "<BULLET>", " ", "3", " ", "p", "a", "g", "e", "s", " ", "<", "a", "t", "t", "a", "c", "h", "e", "d", ":", " ", "r", "e", "p", "o", "r", "t", ".", "p", "d", "f", ">">>

\* report.pdf {BULLET} 3 pages document omitted
T_PdfOmitted ==
    <<"r", "e", "p", "o", "r", "t", ".", "p", "d", "f", " ", "<BULLET>", " ", "3", " ", "p", "a", "g", "e", "s", " ", "d", "o", "c", "u", "m", "e", "n", "t", " ", "o", "m", "i", "t", "t", "e", "d">>

\* report.pdf {BULLET} 3 pages
T_PdfPages ==
    <<"r", "e", "p", "o", "r", "t", ".", "p", "d", "f", " ", "<BULLET>", " ", "3", " ", "p", "a", "g", "e", "s">>

\* sheet.xlsx {BULLET} 2 sheets
T_Sheets ==
    <<"s", "h", "e", "e", "t", ".", "x", "l", "s", "x", " ", "<BULLET>", " ", "2", " ", "s", "h", "e", "e", "t", "s">>

\* Voice call, 3 min
T_VoiceCall ==
    <<"V", "o", "i", "c", "e", " ", "c", "a", "l", "l", ",", " ", "3", " ", "m", "i", "n">>

\* Missed voice call
T_MissedVoice ==
    <<"M", "i", "s", "s", "e", "d", " ", "v", "o", "i", "c", "e", " ", "c", "a", "l", "l">>

\* Missed call, Tap to call back
T_MissedTap ==
    <<"M", "i", "s", "s", "e", "d", " ", "c", "a", "l", "l", ",", " ", "T", "a", "p", " ", "t", "o", " ", "c", "a", "l", "l", " ", "b", "a", "c", "k">>

\* Missed voice call, Tap to call back
T_MissedVoiceTap ==
    <<"M", "i", "s", "s", "e", "d", " ", "v", "o", "i", "c", "e", " ", "c", "a", "l", "l", ",", " ", "T", "a", "p", " ", "t", "o", " ", "c", "a", "l", "l", " ", "b", "a", "c", "k">>

\* No answer
T_NoAnswer ==
    <<"N", "o", " ", "a", "n", "s", "w", "e", "r">>

\* This message was deleted
T_Deleted ==
    <<"T", "h", "i", "s", " ", "m", "e", "s", "s", "a", "g", "e", " ", "w", "a", "s", " ", "d", "e", "l", "e", "t", "e", "d">>

\* Bob left
T_Left ==
    <<"B", "o", "b", " ", "l", "e", "f", "t">>

\* Hello <This message was edited>
T_Edited ==
    <<"H", "e", "l", "l", "o", " ", "<", "T", "h", "i", "s", " ", "m", "e", "s", "s", "a", "g", "e", " ", "w", "a", "s", " ", "e", "d", "i", "t", "e", "d", ">">>

\* Hi{LF}ok
T_TwoLines ==
    <<"H", "i", "\n", "o", "k">>

\* the raw texts of the messages that are classified
Texts ==
    {<<>>, T_Hi, T_Attach, T_AttachSpace, T_AttachCaption, T_ImageOmitted, T_GifOmitted,
     T_PdfAttach, T_PdfOmitted, T_PdfPages, T_Sheets, T_VoiceCall, T_MissedVoice,
     T_MissedTap, T_MissedVoiceTap, T_NoAnswer, T_Deleted, T_Left, T_Edited, T_TwoLines}

\* the messages parse() hands to finalizeMessage: opened by a header
\* (parser.js:189-199) or by a line without a sender (parser.js:226-235)
OpenedMessages ==
    {newMessage(0, [day |-> 19724, sec |-> 36000], <<"A", "l", "i", "c", "e">>, t, "text", FALSE) :
        t \in Texts}
    \cup {newMessage(0, [day |-> 19724, sec |-> 36000], W_System, t, "system", TRUE) :
        t \in Texts \ {<<>>}}

InitClassify ==
    /\ currentMessage \in OpenedMessages
    /\ mediaFiles \in Tables
    /\ pc = "classify"
    /\ content = <<>>
    /\ clock \in Clocks
    /\ rawLines = <<>>
    /\ i = 1
    /\ exportFormat = "ios"
    /\ messages = <<>>
    /\ participants = <<>>
    /\ lastTimestamp = Null
    /\ result = Null
    /\ opened = <<>>
    /\ finalized = <<>>
    /\ fname = <<>>
    /\ found = Null
    /\ dateStr = <<>>
    /\ timeStr = <<>>
    /\ resolved = Null
    /\ rawLine = <<>>
    /\ cleaned = Null
    /\ zip = <<>>
    /\ pending = {}
    /\ chatContent = Null

\* parser.js:301-457, as called at parser.js:157, 179 and 243
Classify ==
    /\ pc = "classify"
    /\ pc' = "classified"
    /\ currentMessage' = finalizeMessage(currentMessage, mediaFiles)
    /\ UNCHANGED <<content, mediaFiles, clock, rawLines, i, exportFormat, messages,
                   participants, lastTimestamp, result, opened, finalized, fname, found,
                   dateStr, timeStr, resolved, rawLine, cleaned,
                   zip, pending, chatContent>>

NextClassify == Classify

SpecClassify == InitClassify /\ [][NextClassify]_vars

---------------------------------------------------------------------------
(* The lookup of one file name *)

\* IMG-20240102.jpg
N_Img ==
    <<"I", "M", "G", "-", "2", "0", "2", "4", "0", "1", "0", "2", ".", "j", "p", "g">>

\* IMG-20240102.JPG
N_ImgUpper ==
    <<"I", "M", "G", "-", "2", "0", "2", "4", "0", "1", "0", "2", ".", "J", "P", "G">>

\* 00012345-PHOTO-2024.jpg
N_Photo ==
    <<"0", "0", "0", "1", "2", "3", "4", "5", "-", "P", "H", "O", "T", "O", "-", "2", "0", "2", "4", ".", "j", "p", "g">>

\* IMG-001.jpg
N_Short ==
    <<"I", "M", "G", "-", "0", "0", "1", ".", "j", "p", "g">>

\* IMG-20240102.jpg
K_Img ==
    <<"I", "M", "G", "-", "2", "0", "2", "4", "0", "1", "0", "2", ".", "j", "p", "g">>

\* VID-20240102.mp4
K_Vid ==
    <<"V", "I", "D", "-", "2", "0", "2", "4", "0", "1", "0", "2", ".", "m", "p", "4">>

\* copy-00012345-PHOTO-2024.jpg
K_PhotoCopy ==
    <<"c", "o", "p", "y", "-", "0", "0", "0", "1", "2", "3", "4", "5", "-", "P", "H", "O", "T", "O", "-", "2", "0", "2", "4", ".", "j", "p", "g">>

\* 00012345.txt
K_Digits ==
    <<"0", "0", "0", "1", "2", "3", "4", "5", ".", "t", "x", "t">>

\* the file names that are looked up; the empty name is what is left of a
\* marker without a letter or digit
Names == {<<>>, N_Img, N_ImgUpper, N_Photo, N_Short}

\* the keys of the lookup tables
Keys == {K_Img, K_Vid, K_PhotoCopy, K_Digits, K_Img001}

\* the most entries a lookup table has
MaxKeys == 2

\* the payload of each key
payloadOf(key) ==
    IF key = K_Img THEN Payload(1)
    ELSE IF key = K_Vid THEN Payload(2)
    ELSE IF key = K_PhotoCopy THEN Payload(3)
    ELSE IF key = K_Digits THEN Payload(4)
    ELSE Payload(5)

\* the lookup tables: a Map iterates in insertion order and holds a key once
tablesOf(n) ==
    {[k \in 1..n |-> [key |-> ks[k], value |-> payloadOf(ks[k])]] :
        ks \in {t \in [1..n -> Keys] : \A a, b \in 1..n : a /= b => t[a] /= t[b]}}

MediaTables == UNION {tablesOf(n) : n \in 0..MaxKeys}

InitMedia ==
    /\ fname \in Names
    /\ mediaFiles \in MediaTables
    /\ pc = "lookup"
    /\ found = Null
    /\ dateStr = <<>>
    /\ timeStr = <<>>
    /\ resolved = Null
    /\ rawLine = <<>>
    /\ cleaned = Null
    /\ zip = <<>>
    /\ pending = {}
    /\ chatContent = Null
    /\ content = <<>>
    /\ clock \in Clocks
    /\ rawLines = <<>>
    /\ i = 1
    /\ exportFormat = "ios"
    /\ messages = <<>>
    /\ participants = <<>>
    /\ currentMessage = Null
    /\ lastTimestamp = Null
    /\ result = Null
    /\ opened = <<>>
    /\ finalized = <<>>

\* parser.js:462-513, as called at parser.js:318
Lookup ==
    /\ pc = "lookup"
    /\ pc' = "found"
    /\ found' = findMediaFile(fname, mediaFiles)
    /\ UNCHANGED <<content, mediaFiles, clock, rawLines, i, exportFormat, messages,
                   participants, currentMessage, lastTimestamp, result, opened,
                   finalized, fname, dateStr, timeStr, resolved, rawLine, cleaned,
                   zip, pending, chatContent>>

NextMedia == Lookup

SpecMedia == InitMedia /\ [][NextMedia]_vars

---------------------------------------------------------------------------
(* The detection of the format of one chat text *)

\* [1/2/24, 10:00 AM] Alice: hi
D_BracketNoSeconds ==
    <<"[", "1", "/", "2", "/", "2", "4", ",", " ", "1", "0", ":", "0", "0", " ", "A", "M", "]", " ", "A", "l", "i", "c", "e", ":", " ", "h", "i">>

\* 1/2/2024, 10:00 - Alice: hi
D_Dash ==
    <<"1", "/", "2", "/", "2", "0", "2", "4", ",", " ", "1", "0", ":", "0", "0", " ", "-", " ", "A", "l", "i", "c", "e", ":", " ", "h", "i">>

\* [1.2.24, 10:00] Alice: hi
D_BracketDots ==
    <<"[", "1", ".", "2", ".", "2", "4", ",", " ", "1", "0", ":", "0", "0", "]", " ", "A", "l", "i", "c", "e", ":", " ", "h", "i">>

\* 1.2.24, 10:00 - Alice: hi
D_DashDots ==
    <<"1", ".", "2", ".", "2", "4", ",", " ", "1", "0", ":", "0", "0", " ", "-", " ", "A", "l", "i", "c", "e", ":", " ", "h", "i">>

\* the lines of the chat texts whose format is detected
DetectLines ==
    {L_AliceHi, D_BracketNoSeconds, D_Dash, D_BracketDots, D_DashDots,
     L_SystemLeft, L_Reply, L_Blank}

\* the longest of these chat texts, in lines
MaxDetectLines == 3

\* as many blank lines as detectFormat looks at
BlankRun == [k \in 1..DetectWindow |-> L_Blank]

\* the chat texts whose one non-blank line follows that many blank lines
PaddedContents == {BlankRun \o <<l>> : l \in DetectLines}

DetectContents == UNION {[1..n -> DetectLines] : n \in 0..MaxDetectLines} \cup PaddedContents

InitDetect ==
    /\ content \in DetectContents
    /\ pc = "detect"
    /\ exportFormat = "ios"
    /\ mediaFiles = <<>>
    /\ clock \in Clocks
    /\ rawLines = <<>>
    /\ i = 1
    /\ messages = <<>>
    /\ participants = <<>>
    /\ currentMessage = Null
    /\ lastTimestamp = Null
    /\ result = Null
    /\ opened = <<>>
    /\ finalized = <<>>
    /\ fname = <<>>
    /\ found = Null
    /\ dateStr = <<>>
    /\ timeStr = <<>>
    /\ resolved = Null
    /\ rawLine = <<>>
    /\ cleaned = Null
    /\ zip = <<>>
    /\ pending = {}
    /\ chatContent = Null

\* parser.js:52-80, as called at parser.js:95
Detect ==
    /\ pc = "detect"
    /\ pc' = "detected"
    /\ exportFormat' = detectFormat(content)
    /\ UNCHANGED <<content, mediaFiles, clock, rawLines, i, messages, participants,
                   currentMessage, lastTimestamp, result, opened, finalized, fname, found,
                   dateStr, timeStr, resolved, rawLine, cleaned,
                   zip, pending, chatContent>>

NextDetect == Detect

SpecDetect == InitDetect /\ [][NextDetect]_vars

---------------------------------------------------------------------------
(* The resolution of one date and time: parseDateTime, parser.js:556-614 *)

\* the first and the second field of a date token
DateFields == {<<"1">>, <<"0", "2">>, <<"1", "2">>, <<"1", "3">>, <<"3", "1">>}

\* the year field, of two and of four digits
YearFields == {<<"0", "5">>, <<"2", "4">>, <<"4", "9">>, <<"5", "0">>, <<"9", "9">>,
               <<"1", "9", "9", "9">>, <<"2", "0", "2", "4">>}

DateSeparators == {"/", "."}

\* date tokens as the header patterns capture them (parser.js:98-102)
DateTokens ==
    {f \o <<p>> \o g \o <<p>> \o y :
        f \in DateFields, g \in DateFields, y \in YearFields, p \in DateSeparators}

\* the hour field: of a 12-hour clock, and 0, 13 and 23 of a 24-hour clock
HourFields == {<<"0">>, <<"1">>, <<"0", "9">>, <<"1", "1">>, <<"1", "2">>, <<"1", "3">>,
               <<"2", "3">>}

HourFields12 == {<<"1">>, <<"0", "9">>, <<"1", "1">>, <<"1", "2">>}

\* minutes, and minutes with seconds
MinuteFields == {<<":", "0", "5">>, <<":", "3", "0", ":", "0", "7">>}

\* the AM/PM markers with the white space before them
Markers == {<<" ", "A", "M">>, <<" ", "P", "M">>, <<"<NNBSP>", "a", "m">>, <<"p", "m">>}

\* time tokens as the header patterns capture them (parser.js:98-102):
\* without a marker any hour, with a marker an hour of the 12-hour clock
TimeTokens ==
    {h \o m : h \in HourFields, m \in MinuteFields}
        \cup {h \o m \o k : h \in HourFields12, m \in MinuteFields, k \in Markers}

InitDate ==
    /\ dateStr \in DateTokens
    /\ timeStr \in TimeTokens
    /\ resolved = Null
    /\ rawLine = <<>>
    /\ cleaned = Null
    /\ zip = <<>>
    /\ pending = {}
    /\ chatContent = Null
    /\ pc = "resolve"
    /\ content = <<>>
    /\ mediaFiles = <<>>
    /\ clock \in Clocks
    /\ rawLines = <<>>
    /\ i = 1
    /\ exportFormat \in {"ios", "android-bracket", "android-dash"}
    /\ messages = <<>>
    /\ participants = <<>>
    /\ currentMessage = Null
    /\ lastTimestamp = Null
    /\ result = Null
    /\ opened = <<>>
    /\ finalized = <<>>
    /\ fname = <<>>
    /\ found = Null

\* parser.js:556-614, as called at parser.js:122; the exportFormat argument
\* is not read
Resolve ==
    /\ pc = "resolve"
    /\ pc' = "resolved"
    /\ resolved' = parseDateTime(dateStr, timeStr, clock)
    /\ UNCHANGED <<content, mediaFiles, clock, rawLines, i, exportFormat, messages,
                   participants, currentMessage, lastTimestamp, result, opened, finalized,
                   fname, found, dateStr, timeStr, rawLine, cleaned,
                   zip, pending, chatContent>>

NextDate == Resolve

SpecDate == InitDate /\ [][NextDate]_vars

---------------------------------------------------------------------------
(* The normalisation of one line: cleanText, parser.js:31-45 *)

\* code points of every class cleanText and trim tell apart: a letter, the
\* plain space, a tab, an invisible mark, a special space, a bidi control, a
\* carriage return and a space separator that is not replaced
CleanAlphabet == {"a", " ", "\t", "<LRM>", "<NNBSP>", "<RLE>", "<CR>", "<EMSP>"}

\* the longest of the lines, in code points
MaxRawLine == 4

RawLines == UNION {[1..n -> CleanAlphabet] : n \in 0..MaxRawLine}

InitClean ==
    /\ rawLine \in RawLines
    /\ cleaned = Null
    /\ zip = <<>>
    /\ pending = {}
    /\ chatContent = Null
    /\ pc = "clean"
    /\ content = <<>>
    /\ mediaFiles = <<>>
    /\ clock \in Clocks
    /\ rawLines = <<>>
    /\ i = 1
    /\ exportFormat = "ios"
    /\ messages = <<>>
    /\ participants = <<>>
    /\ currentMessage = Null
    /\ lastTimestamp = Null
    /\ result = Null
    /\ opened = <<>>
    /\ finalized = <<>>
    /\ fname = <<>>
    /\ found = Null
    /\ dateStr = <<>>
    /\ timeStr = <<>>
    /\ resolved = Null

\* parser.js:31-45, as called at parser.js:112
Clean ==
    /\ pc = "clean"
    /\ pc' = "cleaned"
    /\ cleaned' = cleanText(rawLine)
    /\ UNCHANGED <<content, mediaFiles, clock, rawLines, i, exportFormat, messages,
                   participants, currentMessage, lastTimestamp, result, opened, finalized,
                   fname, found, dateStr, timeStr, resolved, rawLine,
                   zip, pending, chatContent>>

NextClean == Clean

SpecClean == InitClean /\ [][NextClean]_vars

---------------------------------------------------------------------------
(* The archive reader: App.processZipFile *)

afterLastAt(s, ps) == IF ps = {} THEN s ELSE SubSeq(s, Greatest(ps) + 1, Len(s))

\* s.split(c).pop(): what follows the last c of s, s itself when it has none
afterLast(s, c) == afterLastAt(s, {p \in 1..Len(s) : s[p] = c})

\* part_001:384: the file name of an entry, the last part of its path
filenameOf(relativePath) == afterLast(relativePath, "/")

\* _chat.txt
F_chat == <<"_", "c", "h", "a", "t", ".", "t", "x", "t">>

\* part_001:386
isTextFile(filename) == filename = F_chat \/ endsWith(filename, <<".", "t", "x", "t">>)

\* part_001:750-755
mediaExtensions ==
    {<<"j", "p", "g">>, <<"j", "p", "e", "g">>, <<"p", "n", "g">>,
     <<"g", "i", "f">>, <<"w", "e", "b", "p">>, <<"h", "e", "i", "c">>,
     <<"h", "e", "i", "f">>, <<"m", "p", "4">>, <<"m", "o", "v">>,
     <<"a", "v", "i">>, <<"3", "g", "p">>, <<"m", "k", "v">>,
     <<"m", "p", "3">>, <<"o", "g", "g">>, <<"o", "p", "u", "s">>,
     <<"m", "4", "a">>, <<"w", "a", "v">>, <<"a", "a", "c">>,
     <<"p", "d", "f">>, <<"d", "o", "c">>, <<"d", "o", "c", "x">>,
     <<"x", "l", "s">>, <<"x", "l", "s", "x">>, <<"p", "p", "t">>,
     <<"p", "p", "t", "x">>}

\* part_001:749-757
isMediaFile(filename) == toLowerCase(afterLast(filename, ".")) \in mediaExtensions

\* !chatContent: no text yet, or the empty text
noChat(chat) == IF chat = Null THEN TRUE ELSE chat.text = <<>>

chosenFirst(chat, filename, text) ==
    IF noChat(chat) THEN [text |-> text] ELSE chat

\* part_001:389-391: the chat text after the text of the entry `filename` is
\* read
chosenChat(chat, filename, text) ==
    IF noChat(chat) \/ filename = F_chat THEN [text |-> text] ELSE chat

\* Map.prototype.set: the value of a key the table has is replaced in place,
\* a new key goes to the end
mapSet(table, key, value) ==
    IF \E k \in 1..Len(table) : table[k].key = key
    THEN [k \in 1..Len(table) |->
             IF table[k].key = key THEN [key |-> key, value |-> value] ELSE table[k]]
    ELSE Append(table, [key |-> key, value |-> value])

\* part_001:383-402: the entries processZipFile reads
isRead(zipEntry) ==
    /\ ~zipEntry.dir
    /\ isTextFile(filenameOf(zipEntry.path)) \/ isMediaFile(filenameOf(zipEntry.path))

\* part_001:360-404: the archive is opened, the table is emptied and a read
\* is started for every text and media entry
StartReads ==
    /\ pc = "zip"
    /\ pc' = "reading"
    /\ chatContent' = Null
    /\ mediaFiles' = <<>>
    /\ pending' = {k \in 1..Len(zip) : isRead(zip[k])}
    /\ UNCHANGED <<content, clock, rawLines, i, exportFormat, messages, participants,
                   currentMessage, lastTimestamp, result, opened, finalized, fname, found,
                   dateStr, timeStr, resolved, rawLine, cleaned, zip>>

ZipFrame == UNCHANGED <<content, clock, rawLines, i, exportFormat, messages, participants,
                        currentMessage, lastTimestamp, result, opened, finalized, fname,
                        found, dateStr, timeStr, resolved, rawLine, cleaned, zip>>

\* the reads go on after processZipFile has thrown
Reading == pc \in {"reading", "failed"}

\* part_001:387-393: the read of the text entry k is fulfilled
TextRead(k) ==
    /\ Reading
    /\ k \in pending
    /\ isTextFile(filenameOf(zip[k].path))
    /\ chatContent' = chosenChat(chatContent, filenameOf(zip[k].path), zip[k].text)
    /\ pending' = pending \ {k}
    /\ UNCHANGED <<pc, mediaFiles>>
    /\ ZipFrame

\* part_001:395-403: the read of the media entry k is fulfilled
MediaRead(k) ==
    /\ Reading
    /\ k \in pending
    /\ ~isTextFile(filenameOf(zip[k].path))
    /\ mediaFiles' = mapSet(mediaFiles, filenameOf(zip[k].path), Payload(zip[k].data))
    /\ pending' = pending \ {k}
    /\ UNCHANGED <<pc, chatContent>>
    /\ ZipFrame

\* part_001:406: the read of the entry k is rejected, and with it Promise.all:
\* processZipFile throws
ReadFails(k) ==
    /\ Reading
    /\ k \in pending
    /\ pc' = "failed"
    /\ pending' = pending \ {k}
    /\ UNCHANGED <<mediaFiles, chatContent>>
    /\ ZipFrame

\* part_001:406-412: every read is fulfilled and there is no chat text
NoChatText ==
    /\ pc = "reading"
    /\ pending = {}
    /\ noChat(chatContent)
    /\ pc' = "failed"
    /\ UNCHANGED <<mediaFiles, pending, chatContent>>
    /\ ZipFrame

\* part_001:406-416, 476-483: every read is fulfilled and the chat text is
\* handed to parse, with the table
ParseAndRender ==
    /\ pc = "reading"
    /\ pending = {}
    /\ ~noChat(chatContent)
    /\ content' = chatContent.text
    /\ pc' = "start"
    /\ UNCHANGED <<mediaFiles, clock, rawLines, i, exportFormat, messages, participants,
                   currentMessage, lastTimestamp, result, opened, finalized, fname, found,
                   dateStr, timeStr, resolved, rawLine, cleaned, zip, pending, chatContent>>

\* the entries of the archives: [path, dir, text, data], text the content
\* read as a string and data the content read as base64
E_Chat == [path |-> F_chat, dir |-> FALSE, text |-> <<L_AliceHi>>, data |-> 1]

E_EmptyChat == [path |-> F_chat, dir |-> FALSE, text |-> <<>>, data |-> 2]

\* old/_chat.txt
E_OldChat ==
    [path |-> <<"o", "l", "d", "/", "_", "c", "h", "a", "t", ".", "t", "x", "t">>,
     dir |-> FALSE, text |-> <<L_AliceHi, L_BobEarly>>, data |-> 3]

\* notes.txt
E_Notes ==
    [path |-> <<"n", "o", "t", "e", "s", ".", "t", "x", "t">>,
     dir |-> FALSE, text |-> <<L_BobEarly>>, data |-> 4]

\* media/IMG-001.JPG
E_Image ==
    [path |-> <<"m", "e", "d", "i", "a", "/", "I", "M", "G", "-", "0", "0", "1", ".", "J", "P", "G">>,
     dir |-> FALSE, text |-> <<L_Reply>>, data |-> 5]

\* contact.vcf
E_Contact ==
    [path |-> <<"c", "o", "n", "t", "a", "c", "t", ".", "v", "c", "f">>,
     dir |-> FALSE, text |-> <<L_Reply>>, data |-> 6]

\* media/
E_Folder ==
    [path |-> <<"m", "e", "d", "i", "a", "/">>, dir |-> TRUE, text |-> <<>>, data |-> 0]

ZipEntries == {E_Chat, E_EmptyChat, E_OldChat, E_Notes, E_Image, E_Contact, E_Folder}

\* the most entries of an archive
MaxEntries == 3

\* the archives: an archive has one entry of a path
Archives ==
    {z \in UNION {[1..n -> ZipEntries] : n \in 0..MaxEntries} :
        \A j, k \in 1..Len(z) : z[j].path = z[k].path => j = k}

InitZip ==
    /\ zip \in Archives
    /\ mediaFiles \in Tables
    /\ pc = "zip"
    /\ pending = {}
    /\ chatContent = Null
    /\ content = <<>>
    /\ clock \in Clocks
    /\ rawLines = <<>>
    /\ i = 1
    /\ exportFormat = "ios"
    /\ messages = <<>>
    /\ participants = <<>>
    /\ currentMessage = Null
    /\ lastTimestamp = Null
    /\ result = Null
    /\ opened = <<>>
    /\ finalized = <<>>
    /\ fname = <<>>
    /\ found = Null
    /\ dateStr = <<>>
    /\ timeStr = <<>>
    /\ resolved = Null
    /\ rawLine = <<>>
    /\ cleaned = Null

NextZip ==
    \/ StartReads
    \/ \E k \in 1..MaxEntries : TextRead(k)
    \/ \E k \in 1..MaxEntries : MediaRead(k)
    \/ \E k \in 1..MaxEntries : ReadFails(k)
    \/ NoChatText
    \/ ParseAndRender

SpecZip == InitZip /\ [][NextZip]_vars

---------------------------------------------------------------------------
(* Properties of the parse *)

\* the parse has returned
Returned == pc = "done"

\* C1: the returned messages have dense ids: the message at index k (from 0)
\* of the returned list has the id k, also after the cleanup filter has
\* dropped messages.
C1_DenseIds ==
    Returned => \A k \in 1..Len(result.messages) : result.messages[k].id = k - 1

\* the line of the header that opened the message with the given id
openingLine(id) == opened[id + 1].line

\* C2: the returned messages stand in the order in which they were closed,
\* which is the order of the header lines that opened them: messages are
\* closed in the order they are opened, each is opened by a later line than
\* the one before it, and along the returned list the ids and the opening
\* lines increase strictly.
C2_ClosingOrder ==
    Returned =>
        /\ finalized = [k \in 1..Len(opened) |-> opened[k].id]
        /\ \A k \in 1..Len(opened) : opened[k].id = k - 1
        /\ \A k \in 1..(Len(opened) - 1) : opened[k].line < opened[k + 1].line
        /\ \A k \in 1..(Len(result.messages) - 1) :
              /\ result.messages[k].id < result.messages[k + 1].id
              /\ openingLine(result.messages[k].id) < openingLine(result.messages[k + 1].id)

\* three messages are returned, opened by a header, a line without a sender
\* and a header
C2_Witness ==
    /\ Returned
    /\ Len(result.messages) = 3
    /\ \E k \in 1..3 : result.messages[k].isSystem

RECURSIVE headerBefore(_)
\* the last of the lines 1..k that is a header of the active grammar, 0 when
\* there is none
headerBefore(k) ==
    IF k = 0 THEN 0
    ELSE IF matchOf(cleanText(rawLines[k])).ok THEN k
    ELSE headerBefore(k - 1)

\* the header before the line the scanner is at
previousHeader == headerBefore(i - 1)

\* the timestamp of that header
previousHeaderTimestamp == timestampOf(matchOf(cleanText(rawLines[previousHeader])))

\* the scanner is at a header line
AtHeader == Scanning /\ line /= <<>> /\ match.ok

\* the header's timestamp is before the previous header's, and the open
\* message has no text
QuoteCase ==
    /\ currentMessage /= Null
    /\ trim(currentMessage.rawText) = <<>>
    /\ previousHeader > 0
    /\ DateLess(timestamp, previousHeaderTimestamp)

\* the step stores the header in the open message and opens and closes nothing
MergedAsQuote ==
    /\ currentMessage /= Null
    /\ currentMessage' /= Null
    /\ currentMessage'.id = currentMessage.id
    /\ currentMessage'.hasQuote
    /\ currentMessage'.quotedMessage =
          [timestamp |-> timestamp, sender |-> cleanSenderName(match.sender),
           text |-> match.text]
    /\ messages' = messages
    /\ opened' = opened
    /\ finalized' = finalized

\* C3: a header that arrives while a message without text is open, with a
\* timestamp strictly before the previous header's timestamp, opens and
\* closes no message: it is stored as the quotedMessage of the open message,
\* hasQuote is set and the message stays open.  A header whose timestamp is
\* equal to or later than the previous header's is never merged as a quote.
C3_QuoteMerge ==
    [][AtHeader => (QuoteCase <=> MergedAsQuote)]_vars

\* the count the roster `parts` holds for a name, 0 when it does not hold the name
countOf(parts, name) ==
    IF \E p \in 1..Len(parts) : parts[p].name = name
    THEN parts[CHOOSE p \in 1..Len(parts) : parts[p].name = name].count
    ELSE 0

\* the number of the messages of msgs that the sender sent
sentBy(msgs, sender) == Cardinality({k \in 1..Len(msgs) : msgs[k].sender = sender})

\* C4: the roster of the returned data agrees with its messages: every sender
\* of a returned message that is no system sender is in participants, and the
\* count of each participant is the number of returned messages from it.
C4_RosterAgrees ==
    Returned =>
        /\ \A k \in 1..Len(result.messages) :
              ~isSystemSender(result.messages[k].sender) =>
                 \E p \in 1..Len(result.participants) :
                    result.participants[p].name = result.messages[k].sender
        /\ \A p \in 1..Len(result.participants) :
              result.participants[p].count =
                 sentBy(result.messages, result.participants[p].name)

\* the step opens a message
Opens == Len(opened') = Len(opened) + 1

\* the entry of the message the step opens
justOpened == opened'[Len(opened')]

\* C5: every message the scanner opens from a header whose sender is no
\* system sender adds one to the count of that sender as it is opened, also
\* the message without text that is opened to receive a quoted reply; a
\* header merged into the open message as a quote changes no count.
C5_CountedAtOpen ==
    [][/\ (Opens /\ justOpened.by /= "orphan" /\ ~isSystemSender(justOpened.sender)) =>
             /\ countOf(participants', justOpened.sender) =
                   countOf(participants, justOpened.sender) + 1
             /\ \A p \in 1..Len(participants) :
                   participants[p].name /= justOpened.sender =>
                      countOf(participants', participants[p].name) = participants[p].count
       /\ (AtHeader /\ MergedAsQuote) => participants' = participants]_vars

\* none of the four strategies of findMediaFile finds the file name f in mf
unresolved(f, mf) ==
    /\ exactMatch(f, mf) = Null
    /\ caseInsensitiveMatch(f, mf) = Null
    /\ coreFilenameMatch(f, mf) = Null
    /\ numericMatch(f, mf) = Null

\* the message msg carries an attachment marker whose file name, as it is
\* looked up, is found in mf by none of the strategies
unresolvedAttachment(msg, mf) ==
    /\ attachMatch(msg.rawText).ok
    /\ unresolved(attachmentFilename(attachMatch(msg.rawText).cap), mf)

\* the returned message with the given id
isReturned(id) == \E k \in 1..Len(result.messages) : result.messages[k].id = id

\* C8: a message with an attachment marker whose file name matches no key of
\* the lookup table under any of the four strategies, the empty table
\* included, is among the returned messages, with the type media, a media
\* entry, no data and hasData false; the parse returns, and every line has
\* been processed and every opened message closed.
C8_UnresolvedKept ==
    Returned =>
        /\ i > Len(rawLines)
        /\ Len(messages) = Len(opened)
        /\ \A k \in 1..Len(messages) :
              unresolvedAttachment(messages[k], mediaFiles) =>
                 /\ isReturned(messages[k].id)
                 /\ messages[k].type = "media"
                 /\ messages[k].media /= Null
                 /\ messages[k].media.data = Null
                 /\ ~messages[k].media.hasData
        /\ \A k \in 1..Len(result.messages) :
              unresolvedAttachment(result.messages[k], mediaFiles) =>
                 /\ result.messages[k].type = "media"
                 /\ result.messages[k].media /= Null
                 /\ result.messages[k].media.data = Null
                 /\ ~result.messages[k].media.hasData

\* an attachment that a table with another key does not resolve is returned,
\* and so is the message of a later line
C8_Witness ==
    /\ Returned
    /\ mediaFiles /= <<>>
    /\ \E k \in 1..(Len(result.messages) - 1) :
          /\ unresolvedAttachment(result.messages[k], mediaFiles)
          /\ ~result.messages[k].media.hasData

\* the line l is a header in the grammar of a format other than the detected one
otherDialectHeader(l) ==
    IF exportFormat = "android-dash" THEN bracketPattern(l).ok ELSE dashPattern(l).ok

\* the step takes the line as a continuation line of the open message, or
\* drops it when no message is open
ContinuationOrNoise ==
    /\ opened' = opened
    /\ messages' = messages
    /\ finalized' = finalized
    /\ participants' = participants
    /\ IF currentMessage = Null
       THEN currentMessage' = Null
       ELSE /\ currentMessage' /= Null
            /\ currentMessage'.id = currentMessage.id
            /\ currentMessage'.quotedMessage = currentMessage.quotedMessage
            /\ currentMessage'.rawText \in
                  {line, currentMessage.rawText \o <<"\n">> \o line}

\* C11: the format is fixed before the scan and used for every line: while
\* the lines are scanned the format is the detected one and does not change,
\* and a line that is a header in the grammar of another format (a dash header
\* in a text detected as bracketed, or the reverse) opens no message: it is
\* taken as a continuation line or dropped.
C11_DialectFixed ==
    [][/\ pc = "scan" => (exportFormat = detectFormat(content) /\ exportFormat' = exportFormat)
       /\ (Scanning /\ line /= <<>> /\ otherDialectHeader(line)) => ContinuationOrNoise]_vars

\* a bracket header has been scanned in a text detected as dash-delimited,
\* while a message was open
C11_Witness ==
    /\ pc = "scan"
    /\ i > 1
    /\ exportFormat = "android-dash"
    /\ bracketPattern(cleanText(rawLines[i - 1])).ok
    /\ currentMessage /= Null
    /\ Len(opened) = 1

\* the chat text is not the empty string
nonEmptyInput == \E k \in 1..Len(content) : content[k] /= <<>>

\* C12: a parse of a non-empty text in which no line is recognised as a
\* message, so that no message is produced, does not return a normal result
\* with an empty list of messages: it is reported to the caller as a failure.
C12_EmptyParseFails ==
    ~(/\ Returned
      /\ nonEmptyInput
      /\ opened = <<>>
      /\ result /= Null
      /\ result.messages = <<>>)

\* C13: parsing the same text with the same table yields the same result at
\* whatever instant parse is called: the returned messages, with their display
\* fields, are those a call at any other instant returns
C13_ClockIndependent ==
    (Returned /\ result /= Null)
        => \A now \in CallInstants : result.messages = processed(cleanupMessages(messages), now)

\* the ids of the messages closed so far
finalizedIds == {finalized[k] : k \in 1..Len(finalized)}

\* a step that finalizes or pushes a message
Closes == messages' /= messages \/ finalized' /= finalized

\* the open message is classified and pushed, once, by this step
ClosesOpenMessage ==
    /\ currentMessage /= Null
    /\ currentMessage.id \notin finalizedIds
    /\ finalized' = Append(finalized, currentMessage.id)
    /\ messages' = Append(messages, finalizeMessage(currentMessage, mediaFiles))

\* the step opens the next message or ends the parse
OpensNextOrEnds ==
    \/ /\ Len(opened') = Len(opened) + 1
       /\ currentMessage' /= Null
       /\ currentMessage'.id = opened'[Len(opened')].id
    \/ pc' = "done" /\ i > Len(rawLines)

\* C14: a message is finalized and pushed in one step, once, and only by the
\* step that opens the next message or ends the input: a step that pushes or
\* finalizes does both to the open message, which was not finalized before;
\* the open message is never among the closed ones, so it is not finalized
\* while lines can still reach it; and the end of the input leaves no message
\* open, every opened message being closed and pushed exactly once.
C14_ClosedOnce ==
    [][/\ Closes => (ClosesOpenMessage /\ OpensNextOrEnds)
       /\ (currentMessage /= Null) => currentMessage.id \notin finalizedIds
       /\ Len(messages) = Len(finalized)
       /\ (pc = "scan" /\ pc' = "done") =>
             /\ currentMessage' = Null
             /\ Len(finalized') = Len(opened)
             /\ \A k \in 1..Len(opened) :
                   /\ Cardinality({j \in 1..Len(finalized') : finalized'[j] = opened[k].id}) = 1
                   /\ Cardinality({j \in 1..Len(messages') : messages'[j].id = opened[k].id}) = 1]_vars

\* a parse has ended in which one message was closed by the opening of the
\* next and that one by the end of the input, after a continuation line
C14_Witness ==
    /\ Returned
    /\ Len(opened) = 2
    /\ finalized = <<0, 1>>
    /\ Len(messages) = 2
    /\ \E k \in 1..Len(messages[2].rawText) : messages[2].rawText[k] = "\n"

\* the text has a character that is not white space
nonBlank(text) == \E k \in 1..Len(text) : text[k] \notin WhiteSpace

\* the condition under which the claim has a message retained
retainable(msg) ==
    \/ msg.media /= Null
    \/ msg.quotedMessage /= Null
    \/ nonBlank(msg.text)
    \/ msg.isSystem
    \/ msg.type \in {"call", "missed_call", "deleted"}

\* the ids of the returned messages
returnedIds == {result.messages[k].id : k \in 1..Len(result.messages)}

\* C20: after the cleanup every returned message has media, a quoted
\* message, a text that is not blank, the system flag, or one of the types
\* call, missed_call and deleted; every finalized message of which one of
\* these holds is returned; and the returned messages stand in the order in
\* which they were finalized.
C20_CleanupKeeps ==
    Returned =>
        /\ \A k \in 1..Len(result.messages) : retainable(result.messages[k])
        /\ \A k \in 1..Len(messages) : retainable(messages[k]) => messages[k].id \in returnedIds
        /\ \A j, k \in 1..Len(messages) :
              (j < k /\ messages[j].id \in returnedIds /\ messages[k].id \in returnedIds) =>
                  \E a, b \in 1..Len(result.messages) :
                      /\ a < b
                      /\ result.messages[a].id = messages[j].id
                      /\ result.messages[b].id = messages[k].id

\* a parse has returned that dropped an empty message and kept a message
\* for its quoted message alone
C20_Witness ==
    /\ Returned
    /\ \E k \in 1..Len(messages) : messages[k].id \notin returnedIds
    /\ \E k \in 1..Len(result.messages) :
          /\ result.messages[k].quotedMessage /= Null
          /\ result.messages[k].media = Null
          /\ ~nonBlank(result.messages[k].text)
          /\ ~result.messages[k].isSystem

\* the timestamps of the returned messages
returnedTimestamps == {result.messages[k].timestamp : k \in 1..Len(result.messages)}

\* C21: the stats describe the returned messages: totalMessages is their
\* number, mediaMessages the number of those of type media, media_omitted or
\* document_omitted, firstDate and lastDate are the least and the greatest of
\* their timestamps, firstDate not after lastDate, and the date range is "-"
\* exactly when there is no timestamp, as for the empty text.
C21_StatsDescribeResult ==
    Returned =>
        /\ result.stats.totalMessages = Len(result.messages)
        /\ result.stats.mediaMessages =
              Cardinality({k \in 1..Len(result.messages) :
                  result.messages[k].type \in {"media", "media_omitted", "document_omitted"}})
        /\ (result.stats.dateRange = NoDateRange) <=> (returnedTimestamps = {})
        /\ returnedTimestamps = {} =>
              (result.stats.firstDate = Null /\ result.stats.lastDate = Null)
        /\ returnedTimestamps /= {} =>
              /\ result.stats.firstDate \in returnedTimestamps
              /\ result.stats.lastDate \in returnedTimestamps
              /\ \A t \in returnedTimestamps :
                    ~DateLess(t, result.stats.firstDate) /\ ~DateLess(result.stats.lastDate, t)
              /\ ~DateLess(result.stats.lastDate, result.stats.firstDate)

\* a parse has returned messages of two different instants, one of them with
\* media, and a message was dropped by the cleanup
C21_Witness ==
    /\ Returned
    /\ result.stats.mediaMessages = 1
    /\ result.stats.totalMessages = 2
    /\ Len(messages) = 3
    /\ DateLess(result.stats.firstDate, result.stats.lastDate)

\* the header groups and the timestamp of line k
headerOf(k) == matchOf(cleanText(rawLines[k]))

timestampOfLine(k) == timestampOf(headerOf(k))

\* the scanner is at a header without text while a message is open, and the
\* line that follows is a header with an earlier timestamp
EmptyHeaderBeforeEarlier ==
    /\ AtHeader
    /\ trim(match.text) = <<>>
    /\ currentMessage /= Null
    /\ i + 1 <= Len(rawLines)
    /\ headerOf(i + 1).ok
    /\ DateLess(timestampOfLine(i + 1), timestamp)

\* the header is itself a quote of the open message: it is earlier than the
\* open message, which has no text
QuoteOfOpenMessage ==
    /\ DateLess(timestamp, currentMessage.timestamp)
    /\ trim(currentMessage.rawText) = <<>>

\* the step closes and pushes the open message and opens a message without
\* text for the header
ClosesAndOpensEmpty ==
    /\ messages' = Append(messages, finalizeMessage(currentMessage, mediaFiles))
    /\ finalized' = Append(finalized, currentMessage.id)
    /\ Len(opened') = Len(opened) + 1
    /\ currentMessage' /= Null
    /\ currentMessage'.id = Len(messages')
    /\ currentMessage'.timestamp = timestamp
    /\ currentMessage'.sender = cleanSenderName(match.sender)
    /\ currentMessage'.rawText = <<>>
    /\ currentMessage'.quotedMessage = Null
    /\ i' = i + 1

\* the line before opened a message for a header without text, and the
\* scanner is at a header with an earlier timestamp
AfterOpenedEmptyHeader ==
    /\ AtHeader
    /\ i > 1
    /\ opened /= <<>>
    /\ opened[Len(opened)].line = i - 1
    /\ headerOf(i - 1).ok
    /\ trim(headerOf(i - 1).text) = <<>>
    /\ DateLess(timestamp, timestampOfLine(i - 1))

\* C23 as it stands: on a header without text that arrives while a message
\* is open and is followed by a header with a strictly earlier timestamp, the
\* open message is closed and pushed and a message without text is opened for
\* the header; the line that follows is then stored as the quotedMessage of
\* that new message and opens no message.
C23_LookaheadOpens ==
    [][/\ EmptyHeaderBeforeEarlier => ClosesAndOpensEmpty
       /\ AfterOpenedEmptyHeader => MergedAsQuote]_vars

\* C23 amended: the same, for a header that is not itself a quote of the open
\* message, that is, unless the open message has no text and the header is
\* earlier than it.
C23_LookaheadOpensUnlessQuote ==
    [][/\ (EmptyHeaderBeforeEarlier /\ ~QuoteOfOpenMessage) => ClosesAndOpensEmpty
       /\ AfterOpenedEmptyHeader => MergedAsQuote]_vars

\* a parse has returned in which a header without text closed the message
\* before it and the header after it became its quotedMessage
C23_Witness ==
    /\ Returned
    /\ Len(messages) = 2
    /\ Len(opened) = 2
    /\ opened[2].by = "container"
    /\ messages[2].rawText = <<>>
    /\ messages[2].quotedMessage /= Null
    /\ opened[2].line = 2
    /\ Len(rawLines) = 3

\* the scanner is at a line that is not empty and is no header, while a
\* message is open
AtContinuationLine ==
    /\ Scanning
    /\ line /= <<>>
    /\ ~match.ok
    /\ currentMessage /= Null

\* the text the claim gives the open message after the line
continuedText ==
    IF currentMessage.hasQuote /\ currentMessage.rawText = <<>>
    THEN line
    ELSE currentMessage.rawText \o <<"\n">> \o line

\* C24: a line that is not empty and is no header, met while a message is
\* open, changes the text of the open message only: the line becomes the
\* text when the message has hasQuote set and no text, otherwise it is
\* appended after a newline; the pushed messages, the participant counts,
\* the timestamp of the last header and the id, sender, timestamp and quote
\* of the open message stay as they are.
C24_ContinuationFrame ==
    [][AtContinuationLine =>
          /\ currentMessage' = [currentMessage EXCEPT !.rawText = continuedText]
          /\ messages' = messages
          /\ participants' = participants
          /\ lastTimestamp' = lastTimestamp
          /\ opened' = opened
          /\ finalized' = finalized]_vars

\* the third line has become the text of a message that holds a quote
C24_Witness ==
    /\ pc = "scan"
    /\ i = 4
    /\ currentMessage /= Null
    /\ currentMessage.hasQuote
    /\ currentMessage.quotedMessage /= Null
    /\ currentMessage.rawText = <<"o", "k">>

\* the scanner is at a line that is not empty and is no header, while no
\* message is open
AtOrphanLine ==
    /\ Scanning
    /\ line /= <<>>
    /\ ~match.ok
    /\ currentMessage = Null

\* the line matches the grammar of the active format for lines without a sender
matchesHeaderless ==
    IF exportFormat = "android-dash" THEN sysDashPattern(line).ok
    ELSE sysBracketPattern(line).ok

\* the step opens a System message and counts no participant
OpensSystemMessage ==
    /\ currentMessage' /= Null
    /\ currentMessage'.sender = W_System
    /\ currentMessage'.isSystem
    /\ Len(opened') = Len(opened) + 1
    /\ participants' = participants
    /\ messages' = messages
    /\ i' = i + 1
    /\ pc' = "scan"

\* the step drops the line
DiscardsLine ==
    /\ currentMessage' = Null
    /\ opened' = opened
    /\ participants' = participants
    /\ messages' = messages
    /\ i' = i + 1
    /\ pc' = "scan"

\* C25: without an open message, a line that is no header opens a message
\* with the sender System and isSystem set, counted for no participant, if
\* and only if it matches the grammar of the active format for lines without
\* a sender; any other such line is dropped: no message is open after it,
\* the messages and the participant counts are unchanged, and the scan goes
\* on with the next line.
C25_OrphanLine ==
    [][AtOrphanLine =>
          IF matchesHeaderless THEN OpensSystemMessage ELSE DiscardsLine]_vars

\* a line without a sender has opened a System message after a line that
\* was dropped
C25_Witness ==
    /\ pc = "scan"
    /\ i = 3
    /\ opened /= <<>>
    /\ opened[1].by = "orphan"
    /\ opened[1].line = 2
    /\ currentMessage /= Null
    /\ currentMessage.isSystem
    /\ participants = <<>>

\* C28: every returned message that has a quoted message is later than it:
\* the timestamp of the quoted message is strictly earlier than the
\* timestamp of the message.  While a message is open, the timestamp of the
\* previous header the scanner keeps is the timestamp of that message, and a
\* quote merge leaves it alone.
C28_QuoteEarlier ==
    /\ (pc = "scan" /\ currentMessage /= Null) => lastTimestamp = currentMessage.timestamp
    /\ Returned =>
          \A k \in 1..Len(result.messages) :
              result.messages[k].quotedMessage /= Null =>
                  DateLess(result.messages[k].quotedMessage.timestamp,
                           result.messages[k].timestamp)

\* a parse has returned a message that quotes a message of another sender
C28_Witness ==
    /\ Returned
    /\ \E k \in 1..Len(result.messages) :
          /\ result.messages[k].quotedMessage /= Null
          /\ result.messages[k].quotedMessage.sender /= result.messages[k].sender
          /\ DateLess(result.messages[k].quotedMessage.timestamp, result.messages[k].timestamp)

\* the step opens a message from a line without a sender
OpensByOrphan ==
    /\ Len(opened') = Len(opened) + 1
    /\ opened'[Len(opened')].by = "orphan"

\* C29: once a message is open, a message stays open until the end of the
\* input; so a message is opened from a line without a sender only while
\* none has been opened, at most one message of a parse is opened that way,
\* and a line that matches the grammar for lines without a sender while a
\* message is open opens nothing and is added to the text of that message as
\* a continuation.
C29_OpenUntilEnd ==
    [][/\ (pc = "scan" /\ currentMessage /= Null /\ pc' = "scan") => currentMessage' /= Null
       /\ OpensByOrphan => (opened = <<>> /\ currentMessage = Null)
       /\ (AtContinuationLine /\ matchesHeaderless) =>
             /\ opened' = opened
             /\ messages' = messages
             /\ currentMessage' = [currentMessage EXCEPT !.rawText = continuedText]]_vars

\* a line without a sender has opened a System message and the next line,
\* which matches the same grammar, has been added to its text
C29_Witness ==
    /\ pc = "scan"
    /\ i = 3
    /\ Len(opened) = 1
    /\ opened[1].by = "orphan"
    /\ sysPattern(exportFormat, cleanText(rawLines[2])).ok
    /\ currentMessage /= Null
    /\ endsWith(currentMessage.rawText, <<"\n">> \o cleanText(rawLines[2]))

---------------------------------------------------------------------------
(* Properties of the resolution of a date and time *)

\* parseDateTime has returned
Resolved == pc = "resolved"

\* the positions of the separators of the date token
separatorsOf(d) == {k \in 1..Len(d) : d[k] \in DateSeparators}

\* the digits of the three fields of the date token
firstField(d) == SubSeq(d, 1, Least(separatorsOf(d)) - 1)

secondField(d) == SubSeq(d, Least(separatorsOf(d)) + 1, Greatest(separatorsOf(d)) - 1)

yearField(d) == SubSeq(d, Greatest(separatorsOf(d)) + 1, Len(d))

\* the year the claim gives to a year field of the value y
claimedYear(field, y) ==
    IF Len(field) = 2 THEN (IF y >= 50 THEN 1900 + y ELSE 2000 + y) ELSE y

\* the month and the day the claim gives to the first two fields
claimedMonth(first, second) == IF first > 12 THEN second ELSE first

claimedDay(first, second) == IF first > 12 THEN first ELSE second

\* the calendar day of the claimed year, month and day
claimedDate(d) ==
    NewDate(claimedYear(yearField(d), parseInt(yearField(d))),
            claimedMonth(parseInt(firstField(d)), parseInt(secondField(d))) - 1,
            claimedDay(parseInt(firstField(d)), parseInt(secondField(d))),
            0, 0, 0)

\* C17: in every format a year of two digits y is expanded to 1900 + y when
\* y >= 50 and to 2000 + y otherwise, and of the first two fields the first
\* is the day when it exceeds 12, otherwise the first is the month and the
\* second the day: the Date returned falls on the day of that year, month
\* and day.
C17_YearAndOrder ==
    Resolved => resolved.day = claimedDate(dateStr).day

\* 13.12.50 has been resolved to 1950-12-13, the day 13 standing first and
\* the year 50 falling in the 1900s
C17_Witness ==
    /\ Resolved
    /\ dateStr = <<"1", "3", ".", "1", "2", ".", "5", "0">>
    /\ resolved.day = DaysFromCivil(1950, 12, 13)

\* the marker of a time token: "AM", "PM", or "" when it has none
markerOf(t) ==
    IF t[Len(t)] \notin {"M", "m"} THEN ""
    ELSE IF t[Len(t) - 1] \in {"A", "a"} THEN "AM" ELSE "PM"

\* the hour field of a time token
hourOf(t) == parseInt(SubSeq(t, 1, Least({k \in 1..Len(t) : t[k] = ":"}) - 1))

\* the time token has a seconds field
hasSecondsField(t) == Cardinality({k \in 1..Len(t) : t[k] = ":"}) = 2

\* the hour of the 24-hour clock the claim gives to the hour h under a marker
claimedHour(h, marker) ==
    IF marker = "AM" THEN (IF h = 12 THEN 0 ELSE h)
    ELSE IF marker = "PM" THEN (IF h = 12 THEN 12 ELSE h + 12)
    ELSE h

\* C18: with an AM/PM marker and an hour h in 1..12 the hour of the Date is 0
\* for 12 AM, h for h AM, 12 for 12 PM and h + 12 for h PM, always in 0..23;
\* without a marker it is the hour as written; without a seconds field the
\* seconds are 0.
C18_HourAndSeconds ==
    Resolved =>
        /\ (markerOf(timeStr) /= "" => hourOf(timeStr) \in 1..12)
        /\ resolved.sec \div 3600 = claimedHour(hourOf(timeStr), markerOf(timeStr))
        /\ resolved.sec \div 3600 \in 0..23
        /\ ~hasSecondsField(timeStr) => resolved.sec % 60 = 0

\* 12:05 AM has been resolved to five minutes past midnight
C18_Witness ==
    /\ Resolved
    /\ timeStr = <<"1", "2", ":", "0", "5", " ", "A", "M">>
    /\ resolved.sec = 300

---------------------------------------------------------------------------
(* Properties of the normalisation *)

\* cleanText has returned
Cleaned == pc = "cleaned"

\* C22: cleanText is idempotent, and what it returns holds no invisible
\* mark, no bidi control, no special space, no carriage return, no two plain
\* spaces in a row, and no space at its start or its end.
C22_CleanIdempotent ==
    Cleaned =>
        /\ cleanText(cleaned) = cleaned
        /\ \A k \in 1..Len(cleaned) :
              cleaned[k] \notin InvisibleMarks \cup BidiControls \cup SpecialSpaces \cup {"<CR>"}
        /\ \A k \in 1..(Len(cleaned) - 1) : ~(cleaned[k] = " " /\ cleaned[k + 1] = " ")
        /\ cleaned /= <<>> => (cleaned[1] /= " " /\ cleaned[Len(cleaned)] /= " ")

\* a line whose special space and plain space collapse into one space, and
\* a line that a mark and spaces around it reduce to its letter
C22_Witness ==
    /\ Cleaned
    /\ \/ rawLine = <<"a", "<NNBSP>", " ", "a">> /\ cleaned = <<"a", " ", "a">>
       \/ rawLine = <<" ", "<LRM>", " ", "a">> /\ cleaned = <<"a">>

---------------------------------------------------------------------------
(* Properties of the classification *)

\* finalizeMessage has returned
Classified == pc = "classified"

\* the types of the messages that carry media
MediaKinds == {"media", "media_omitted", "document", "document_omitted"}

\* C6: a message has a media entry if and only if its type is one of media,
\* media_omitted, document and document_omitted; no message of type text,
\* system, call, missed_call or deleted has one.  Stated of every message as
\* finalizeMessage leaves it: the returned messages are such messages, and
\* neither the cleanup nor the display fields change type or media.
C6_MediaIffKind ==
    Classified => (currentMessage.media /= Null <=> currentMessage.type \in MediaKinds)

\* a document entry without a file has been classified
C6_Witness ==
    /\ Classified
    /\ currentMessage.type = "document_omitted"
    /\ currentMessage.media /= Null

\* the attachment marker that names the file F
attachmentMarker(F) ==
    <<"<", "a", "t", "t", "a", "c", "h", "e", "d", ":", " ">> \o F \o <<">">>

\* C7: for every file name F that is a key of the lookup table, a message
\* whose text is '<attached: F>' is finalized with hasData true and with the
\* data the table holds for F.
C7_KeyResolves ==
    Classified =>
        \A k \in 1..Len(mediaFiles) :
            currentMessage.rawText = attachmentMarker(mediaFiles[k].key) =>
                /\ currentMessage.media /= Null
                /\ currentMessage.media.hasData
                /\ currentMessage.media.data = mediaFiles[k].value

\* C15: a message whose raw text is 'NAME.pdf <bullet> N pages' followed by
\* the marker '<attached: FILE>' is finalized as a document: its type is
\* document and its media entry holds the page count N, the display name
\* NAME.pdf and the file name FILE.
C15_PdfAttachIsDocument ==
    (Classified /\ pdfWithAttachMatch(currentMessage.rawText).ok) =>
        /\ currentMessage.type = "document"
        /\ currentMessage.media /= Null
        /\ currentMessage.media.pages = pdfWithAttachMatch(currentMessage.rawText).count
        /\ currentMessage.media.displayName = trim(pdfWithAttachMatch(currentMessage.rawText).name)
        /\ currentMessage.media.filename = cleanText(pdfWithAttachMatch(currentMessage.rawText).cap)

\* C16: a message without an attachment marker whose raw text has the shape
\* 'NAME.ext <bullet> N pages|sheets', followed or not by 'document omitted',
\* is finalized with the type document_omitted and a media entry without data.
C16_DocumentOmitted ==
    (Classified /\ ~attachMatch(currentMessage.rawText).ok /\ docMatch(currentMessage.rawText).ok) =>
        /\ currentMessage.type = "document_omitted"
        /\ currentMessage.media /= Null
        /\ ~currentMessage.media.hasData

\* s without the comma it starts with
afterComma(s) == IF Ch(s, 1) = "," THEN Tail(s) ELSE s

\* what follows the first call phrase of the raw text s: the duration or the
\* number of people invited, without the comma and the white space around it
callSuffix(s) ==
    trim(afterComma(SubSeq(s, PhraseEndAt(s, Least(PhraseStarts(s, CallPhrases)), CallPhrases),
                           Len(s))))

\* C26: a message finalized with the type call keeps the suffix that follows
\* the call phrase of its raw text (a duration or a number of people invited)
\* at the end of its text, and its text never contains 'Tap to call back'.
C26_CallSuffix ==
    (Classified /\ currentMessage.type = "call") =>
        /\ ~testPhrases(currentMessage.text, {TapPhrase})
        /\ ~testPhrases(callSuffix(currentMessage.rawText), {TapPhrase}) =>
              endsWith(currentMessage.text, callSuffix(currentMessage.rawText))

\* the call type the raw text s names: its first 'Voice call' or 'Video call'
namedCallType(s) ==
    SubSeq(s, Least(PhraseStarts(s, CallTypes)),
           PhraseEndAt(s, Least(PhraseStarts(s, CallTypes)), CallTypes) - 1)

\* C27: a message finalized with the type missed_call has the text
\* '<CallType> - No answer', CallType the voice call or video call its raw
\* text names, when the raw text names one, and the text 'Missed call'
\* otherwise.
C27_MissedCallText ==
    (Classified /\ currentMessage.type = "missed_call") =>
        currentMessage.text =
            IF testPhrases(currentMessage.rawText, CallTypes)
            THEN namedCallType(currentMessage.rawText) \o W_NoAnswerText
            ELSE W_MissedCall

---------------------------------------------------------------------------
(* Properties of the lookup *)

\* findMediaFile has returned
LookedUp == pc = "found"

\* what each strategy finds on its own, in the order exact key, key without
\* regard to case, core token, run of digits
strategyResults(f, mf) ==
    <<exactMatch(f, mf), caseInsensitiveMatch(f, mf),
      coreFilenameMatch(f, mf), numericMatch(f, mf)>>

\* r is what the first of the strategies that finds something finds, and is
\* null only when none finds anything
firstSuccess(r, rs) ==
    /\ \A s \in 1..Len(rs) :
          (rs[s] /= Null /\ \A t \in 1..(s - 1) : rs[t] = Null) => r = rs[s]
    /\ r = Null => \A s \in 1..Len(rs) : rs[s] = Null

\* C9: findMediaFile returns what the earliest succeeding strategy selects, in
\* the order exact key, case-insensitive key, substring match of the core
\* token, substring match of the first run of 8 or more digits; what a later
\* strategy finds is never returned when an earlier one finds something (a key
\* equal to the file name wins over every other key), and null is returned
\* only when all four fail.
C9_FirstStrategyWins ==
    LookedUp =>
        /\ firstSuccess(found, strategyResults(fname, mediaFiles))
        /\ \A k \in 1..Len(mediaFiles) :
              mediaFiles[k].key = fname => found = mediaFiles[k].value

\* a key equal to the file name stands in the table after another key that
\* has the same run of digits
C9_Witness ==
    /\ LookedUp
    /\ exactMatch(fname, mediaFiles) /= Null
    /\ numericMatch(fname, mediaFiles) /= Null
    /\ numericMatch(fname, mediaFiles) /= exactMatch(fname, mediaFiles)
    /\ found = exactMatch(fname, mediaFiles)

---------------------------------------------------------------------------
(* Properties of the detection *)

\* detectFormat has returned
Detected == pc = "detected"

\* the line is a bracket header, with or without a sender
isBracketHeader(s) == sysBracketPattern(s).ok

\* the line is a dash header
isDashHeader(s) == dashPattern(s).ok

\* the time of a bracket header has a seconds field
hasSeconds(s) ==
    Cardinality({k \in 1..Len(DateTimePrefix(s, 2).timeStr) :
                    DateTimePrefix(s, 2).timeStr[k] = ":"}) = 2

\* the format the first header among the cleaned lines s decides
RECURSIVE formatOfFirstHeader(_, _)
formatOfFirstHeader(lines, k) ==
    IF k > Len(lines) THEN "ios"
    ELSE IF isBracketHeader(cleanText(lines[k]))
         THEN (IF hasSeconds(cleanText(lines[k])) THEN "ios" ELSE "android-bracket")
    ELSE IF isDashHeader(cleanText(lines[k])) THEN "android-dash"
    ELSE formatOfFirstHeader(lines, k + 1)

\* C10: the format is decided by the first line that is a header, each line
\* tested against the bracket header grammar before the dash header grammar:
\* a bracket header whose time has seconds gives ios (bracketed with
\* seconds), a bracket header without seconds gives android-bracket, a dash
\* header gives android-dash, and a text without a header gives ios.
C10_FirstHeaderDecides ==
    Detected => exportFormat = formatOfFirstHeader(content, 1)

\* the lines of the text that are not empty once cleaned
nonEmptyLines(lines) == SelectSeq(lines, LAMBDA l : cleanText(l) /= <<>>)

\* C19: the window of the detection is the first 20 non-empty lines: blank
\* lines do not use it up, so the format is the one decided on the first 20
\* of the lines that are not empty, however many blank lines stand before
\* them.
C19_WindowOfNonEmptyLines ==
    Detected => exportFormat = detectFrom(slice0(nonEmptyLines(content), DetectWindow), 1)

---------------------------------------------------------------------------
(* Properties of the archive reader *)

\* the entries of the archive with the file name _chat.txt
chatEntries == {k \in 1..Len(zip) : ~zip[k].dir /\ filenameOf(zip[k].path) = F_chat}

\* the other entries whose file name ends in .txt
otherTextEntries ==
    {k \in 1..Len(zip) : /\ ~zip[k].dir
                         /\ filenameOf(zip[k].path) /= F_chat
                         /\ endsWith(filenameOf(zip[k].path), <<".", "t", "x", "t">>)}

\* the media entries of the archive
mediaEntries ==
    {k \in 1..Len(zip) : /\ ~zip[k].dir
                         /\ ~isTextFile(filenameOf(zip[k].path))
                         /\ isMediaFile(filenameOf(zip[k].path))}

\* the archive has exactly one entry with the file name _chat.txt, its
\* content is not empty, and there are other .txt entries
OneChatAmongTexts ==
    /\ Cardinality(chatEntries) = 1
    /\ \A k \in chatEntries : zip[k].text /= <<>>
    /\ otherTextEntries /= {}

\* parse has been called with the chat text of the archive
HandedToParse == pc = "start"

\* C30: when the archive has exactly one entry with the file name _chat.txt,
\* with a content that is not empty, and other .txt entries, the text handed
\* to parse is the content of _chat.txt whatever the order in which the
\* reads complete; and parse is called only after every read has completed,
\* with every media entry in the lookup table.
C30_ChatFileWins ==
    HandedToParse =>
        /\ pending = {}
        /\ \A k \in mediaEntries :
              \E j \in 1..Len(mediaFiles) :
                  /\ mediaFiles[j].key = filenameOf(zip[k].path)
                  /\ mediaFiles[j].value = Payload(zip[k].data)
        /\ OneChatAmongTexts => \A k \in chatEntries : content = zip[k].text

\* the chat text of an archive whose _chat.txt comes after another .txt
\* entry and a media entry has been handed to parse
C30_Witness ==
    /\ HandedToParse
    /\ OneChatAmongTexts
    /\ mediaEntries /= {}
    /\ \E k \in chatEntries : \E j \in otherTextEntries : j < k

===========================================================================
